---- MODULE Spec2Model ----
(***************************************************************************)
(* Staged-commit workflow of the ERP approval middleware.                  *)
(*                                                                         *)
(* The decision store (table approval_decisions), the orchestrator         *)
(* operations (detect_and_stage_requisitions, undo_decision,               *)
(* approve_decision, reject_decision, list_pending_commits) and the        *)
(* commit worker (CommitWorker.run and its per-decision pipeline).         *)
(*                                                                         *)
(* Store sessions.  Every orchestrator call made by the API runs in its    *)
(* own request session and ends with db.commit(): it is one atomic step on *)
(* the persisted rows.  The worker tick holds ONE session from its         *)
(* list_pending_commits query to its end-of-tick db.commit().  The session *)
(* factory is sessionmaker(autocommit=False, autoflush=False): objects     *)
(* added or modified in a session reach the store only at db.commit(), and *)
(* a SELECT issued through the session returns, for a row whose object is  *)
(* already loaded in that session, the loaded object with the attribute    *)
(* values it already has (the session's identity map; the query does not   *)
(* use populate_existing and nothing expires the object before the commit).*)
(***************************************************************************)
EXTENDS Integers, Sequences, FiniteSets, TLC

(***************************************************************************)
(* Bounds of the model.                                                    *)
(***************************************************************************)
MaxTime == 5
MaxDecisions == 2
MaxBatch == 2
MaxSessions == 2
MaxSwitches == 2
MaxSimulated == 3

(***************************************************************************)
(* Program constants.                                                      *)
(***************************************************************************)
GracePeriodMinutes == 5
ErrorMessageLimit == 500
LOW_RISK_THRESHOLD == 30
MEDIUM_RISK_THRESHOLD == 70
HIGH_VALUE_THRESHOLD == 100
ELEVATED_VALUE_THRESHOLD == 50
MODERATE_VALUE_THRESHOLD == 20
UNIT_PRICE_THRESHOLD == 10
QUANTITY_THRESHOLD == 5
MAX_RISK_SCORE == 100
MAX_RETRIES == 3

\* Python None for a timestamp or a number
NoneVal == -1

\* Python None for a text column
NoText == [src |-> "none", len |-> 0]

Min(a, b) == IF a <= b THEN a ELSE b

Range(s) == {s[i] : i \in 1..Len(s)}

(***************************************************************************)
(* Requisitions the connector can return (RequisitionDTO).  price and      *)
(* quantity are the DTO's optional numbers; material and plant say whether *)
(* the text holds one of the HIGH_RISK_MATERIALS / RESTRICTED_PLANTS       *)
(* keywords ("none" for a missing or empty text).                          *)
(***************************************************************************)
ReqIds == {"PR-A", "PR-B"}

RequisitionDTO(r) ==
    IF r = "PR-A"
    THEN [erp_requisition_id |-> r, price |-> 5, quantity |-> 1,
          material |-> "plain", plant |-> "plain"]
    ELSE IF r = "PR-2026-001"
    THEN [erp_requisition_id |-> r, price |-> 1500, quantity |-> 5,
          material |-> "plain", plant |-> "plain"]
    ELSE IF r = "PR-2026-002"
    THEN [erp_requisition_id |-> r, price |-> 800, quantity |-> 10,
          material |-> "plain", plant |-> "plain"]
    ELSE IF r = "PR-X"
    THEN [erp_requisition_id |-> r, price |-> -1, quantity |-> -1,
          material |-> "none", plant |-> "none"]
    ELSE [erp_requisition_id |-> r, price |-> 200, quantity |-> 1,
          material |-> "plain", plant |-> "plain"]

\* Variant of Score without the unit-price rule
Score_NoUnitPrice(req) ==
    LET total == req.price * req.quantity
        valueRisk == IF req.price # NoneVal /\ req.quantity # NoneVal
                     THEN IF total > HIGH_VALUE_THRESHOLD THEN 40
                          ELSE IF total > ELEVATED_VALUE_THRESHOLD THEN 20
                          ELSE IF total > MODERATE_VALUE_THRESHOLD THEN 10
                          ELSE 0
                     ELSE 0
        qtyRisk == IF req.quantity # NoneVal /\ req.quantity > QUANTITY_THRESHOLD
                   THEN 10 ELSE 0
        materialRisk == IF req.material = "high_risk" THEN 20 ELSE 0
        plantRisk == IF req.plant = "restricted" THEN 15 ELSE 0
        missing == (IF req.price = NoneVal THEN 5 ELSE 0)
                   + (IF req.quantity = NoneVal THEN 5 ELSE 0)
    IN Min(valueRisk + qtyRisk + materialRisk + plantRisk + missing, MAX_RISK_SCORE)

\* RiskScoringEngine.score
Score(req) ==
    LET total == req.price * req.quantity
        valueRisk == IF req.price # NoneVal /\ req.quantity # NoneVal
                     THEN IF total > HIGH_VALUE_THRESHOLD THEN 40
                          ELSE IF total > ELEVATED_VALUE_THRESHOLD THEN 20
                          ELSE IF total > MODERATE_VALUE_THRESHOLD THEN 10
                          ELSE 0
                     ELSE 0
        priceRisk == IF req.price # NoneVal /\ req.price > UNIT_PRICE_THRESHOLD
                     THEN 15 ELSE 0
        qtyRisk == IF req.quantity # NoneVal /\ req.quantity > QUANTITY_THRESHOLD
                   THEN 10 ELSE 0
        materialRisk == IF req.material = "high_risk" THEN 20 ELSE 0
        plantRisk == IF req.plant = "restricted" THEN 15 ELSE 0
        missing == (IF req.price = NoneVal THEN 5 ELSE 0)
                   + (IF req.quantity = NoneVal THEN 5 ELSE 0)
    IN Min(valueRisk + priceRisk + qtyRisk + materialRisk + plantRisk + missing,
           MAX_RISK_SCORE)

\* RiskExplanationEngine.explain: the rules that fired, in the order of
\* _all_checks (each stands for its sentence of the explanation text)
Explain(req) ==
    LET known == req.price # NoneVal /\ req.quantity # NoneVal
        total == req.price * req.quantity
        fired(c, tag) == IF c THEN <<tag>> ELSE <<>>
        rules ==
            fired(known /\ total > HIGH_VALUE_THRESHOLD, "high_total_value")
            \o fired(known /\ total > ELEVATED_VALUE_THRESHOLD
                           /\ total <= HIGH_VALUE_THRESHOLD, "elevated_total_value")
            \o fired(req.price # NoneVal /\ req.price > UNIT_PRICE_THRESHOLD,
                     "high_unit_price")
            \o fired(req.quantity # NoneVal /\ req.quantity > QUANTITY_THRESHOLD,
                     "high_quantity")
            \o fired(req.material = "high_risk", "high_risk_material")
            \o fired(req.plant = "restricted", "restricted_plant")
            \o fired(req.price = NoneVal, "missing_price")
            \o fired(req.quantity = NoneVal, "missing_quantity")
    IN IF rules = <<>> THEN <<"all_clear">> ELSE rules

\* Variant of DetermineDecision whose thresholds belong to the lower band
DetermineDecision_Inclusive(risk_score) ==
    IF risk_score <= LOW_RISK_THRESHOLD THEN "auto_approve"
    ELSE IF risk_score <= MEDIUM_RISK_THRESHOLD THEN "manual_approve"
    ELSE "hold"

\* ApprovalOrchestrator._determine_decision
DetermineDecision(risk_score) ==
    IF risk_score < LOW_RISK_THRESHOLD THEN "auto_approve"
    ELSE IF risk_score < MEDIUM_RISK_THRESHOLD THEN "manual_approve"
    ELSE "hold"

(***************************************************************************)
(* Comment text.  A text is a sequence of pieces: a piece is one space,    *)
(* one "|", or a run of characters that neither begins nor ends with a     *)
(* space or a "|" (str.strip looks at the two ends only).                  *)
(***************************************************************************)
WHITESPACE == {" "}
SPACE_OR_PIPE == {" ", "|"}

RECURSIVE LStrip(_, _)
LStrip(text, chars) ==
    IF text # <<>> /\ Head(text) \in chars THEN LStrip(Tail(text), chars) ELSE text

RECURSIVE RStrip(_, _)
RStrip(text, chars) ==
    IF text # <<>> /\ text[Len(text)] \in chars
    THEN RStrip(SubSeq(text, 1, Len(text) - 1), chars)
    ELSE text

\* str.strip(chars)
Strip(text, chars) == RStrip(LStrip(text, chars), chars)

\* f"{risk_score:.2f}" of a whole-number score
ScoreText(risk_score) == ToString(risk_score) \o ".00"

\* orchestrator.py 484-500 (the dash of the source is written "-")
GenerateComment(risk_score, decision) ==
    IF decision = "auto_approve"
    THEN <<"Low risk (score: " \o ScoreText(risk_score) \o ") - auto-approved">>
    ELSE IF decision = "manual_approve"
    THEN <<"Medium risk (score: " \o ScoreText(risk_score) \o ") - requires approval">>
    ELSE <<"High risk (score: " \o ScoreText(risk_score) \o ") - flagged for review">>

\* a caller's comment of None or "": both are false in "if comment:"
NoComment == <<>>

\* orchestrator.py 241-243
CancelledComment(old) ==
    Strip(old \o <<" ", "[Cancelled by user]">>, WHITESPACE)

\* the label put before a manager's comment, and the note written without one
CommentLabel(decision) ==
    IF decision = "manual_approve" THEN "Approved:" ELSE "Rejected:"
DefaultNote(decision) ==
    IF decision = "manual_approve"
    THEN "Manually approved by manager"
    ELSE "Manually rejected by manager"

\* Variant of DecidedComment that keeps the manager's note only
DecidedComment_Replaces(old, decision, comment) ==
    Strip(IF comment # NoComment
          THEN <<CommentLabel(decision), " ">> \o comment
          ELSE <<DefaultNote(decision)>>,
          SPACE_OR_PIPE)

\* orchestrator.py 333-340 and 385-392
DecidedComment(old, decision, comment) ==
    Strip(old \o <<" ", "|", " ">> \o
          (IF comment # NoComment
           THEN <<CommentLabel(decision), " ">> \o comment
           ELSE <<DefaultNote(decision)>>),
          SPACE_OR_PIPE)

ActiveStates == {"pending_commit", "detected"}
TerminalStates == {"committed", "cancelled", "failed"}

VARIABLES
    now,                  \* datetime.utcnow(), in minutes
    auto_commit_enabled,  \* Settings.auto_commit_enabled of the running process
    store,                \* persisted approval_decisions rows; a row's id is its index
    wpc,                  \* position of the worker tick: "idle" | "loop" | "commit"
    wquery,               \* utcnow() of the tick's list_pending_commits query
    wlist,                \* pending_decisions of the tick (sequence of ids)
    widx,                 \* index in wlist of the next decision to process
    wloaded,              \* the tick's session: rows as loaded by the query
    wsess,                \* the tick's session: current attribute values of the loaded objects
    wsubmitted,           \* submit_approval calls of the tick, in call order
    wlogs,                \* the tick's session: NotificationLog objects added, not yet persisted
    notification_logs,    \* persisted notification_logs rows
    scored,               \* a risk score and the outcome _determine_decision gave it
    fetched,              \* a batch given to detect_and_stage_requisitions, with what
                          \* happens to each of its candidates
    erp_sim,              \* erp_simulated_requisitions rows, in insertion order
    mock_connected,       \* MockERPAdapter._connected of each adapter instance
    sap,                  \* the SAPERPAdapter instance and its operation in progress
    adapter,              \* worker.py's global _adapter: the active connector
    other_submitted,      \* submit_approval calls a second tick made while this one runs
    staging,              \* a detect_and_stage call between its loop and its db.commit()
    ret                   \* what the last call returned

vars == <<now, auto_commit_enabled, store, wpc, wquery, wlist, widx,
          wloaded, wsess, wsubmitted, wlogs, notification_logs, scored,
          fetched, erp_sim, mock_connected, sap, adapter, other_submitted, staging,
          ret>>

\* the decision store side: everything but the connectors' own state
coreVars == <<now, auto_commit_enabled, store, wpc, wquery, wlist, widx,
              wloaded, wsess, wsubmitted, wlogs, notification_logs, scored,
              fetched, other_submitted, staging>>

\* the connectors' own state
connectorVars == <<erp_sim, mock_connected, sap, adapter>>

workerVars == <<wpc, wquery, wlist, widx, wloaded, wsess, wsubmitted, wlogs>>

\* what the orchestrator's calls never touch
outsideVars == <<notification_logs, scored, fetched, connectorVars, other_submitted,
                 staging>>

Ids(st) == 1..Len(st)

\* What the last call returned: none when it returned None, an empty list
\* or the statistics of a tick without candidates (n = 0), raised when it
\* raised.  After a turn of the worker's loop that called the connector,
\* result is the connector's answer ("-" otherwise).
Ret(op, n, raised) == [none |-> (n = 0), raised |-> raised, result |-> "-"]

(***************************************************************************)
(* Orchestrator queries.                                                   *)
(***************************************************************************)

\* Variant of HasActiveDecision that looks for pending_commit only
HasActiveDecision_PendingOnly(erp_requisition_id, st) ==
    \E d \in Ids(st) : /\ st[d].erp_requisition_id = erp_requisition_id
                       /\ st[d].state = "pending_commit"

\* ApprovalOrchestrator._has_active_decision: the SELECT sees persisted rows only
HasActiveDecision(erp_requisition_id, st) ==
    \E d \in Ids(st) : /\ st[d].erp_requisition_id = erp_requisition_id
                       /\ st[d].state \in ActiveStates

\* Variant of FindPendingDecision without the WHERE state IN (...) clause
FindPendingDecision_AnyState(erp_requisition_id, st) ==
    LET rows == {d \in Ids(st) : st[d].erp_requisition_id = erp_requisition_id}
    IN {d \in rows : \A e \in rows : st[e].created_at <= st[d].created_at}

\* Variant of FindPendingDecision with WHERE state = 'pending_commit'
FindPendingDecision_PendingOnly(erp_requisition_id, st) ==
    LET active == {d \in Ids(st) : /\ st[d].erp_requisition_id = erp_requisition_id
                                   /\ st[d].state = "pending_commit"}
    IN {d \in active : \A e \in active : st[e].created_at <= st[d].created_at}

\* ApprovalOrchestrator._find_pending_decision (and the same query in
\* undo_decision): ORDER BY created_at DESC LIMIT 1 over the active decisions
\* of the requisition; rows with equal created_at come in no defined order.
FindPendingDecision(erp_requisition_id, st) ==
    LET active == {d \in Ids(st) : /\ st[d].erp_requisition_id = erp_requisition_id
                                   /\ st[d].state \in ActiveStates}
    IN {d \in active : \A e \in active : st[e].created_at <= st[d].created_at}

\* Variant of IsDue without the WHERE commit_at <= now clause
IsDue_NoGrace(row, t) == row.state = "pending_commit"

\* Variant of IsDue with commit_at < now
IsDue_Strict(row, t) == row.state = "pending_commit" /\ row.commit_at < t

\* WHERE clause of ApprovalOrchestrator.list_pending_commits
IsDue(row, t) == row.state = "pending_commit" /\ row.commit_at <= t

\* ApprovalOrchestrator.list_pending_commits: the ids of the returned rows
ListPendingCommits(st, t) == {d \in Ids(st) : IsDue(st[d], t)}

\* Variant of OrderedByCommitAt without the ORDER BY clause
OrderedByCommitAt_Unordered(S, st) ==
    {s \in [1..Cardinality(S) -> S] :
        \A i, j \in 1..Cardinality(S) : i < j => s[i] # s[j]}

\* ORDER BY commit_at of list_pending_commits: the orders the query can
\* return the set of rows in (rows with equal commit_at in no defined order)
OrderedByCommitAt(S, st) ==
    {s \in [1..Cardinality(S) -> S] :
        /\ \A i, j \in 1..Cardinality(S) : i < j => s[i] # s[j]
        /\ \A i, j \in 1..Cardinality(S) :
              i < j => st[s[i]].commit_at <= st[s[j]].commit_at}

(***************************************************************************)
(* detect_and_stage_requisitions                                           *)
(***************************************************************************)

\* Variant of NewDecision that stages pending_commit whatever the setting
NewDecision_AlwaysPending(id, erp_requisition_id, t, auto) ==
    LET risk_score == Score(RequisitionDTO(erp_requisition_id))
    IN [id |-> id,
        erp_requisition_id |-> erp_requisition_id,
        risk_score |-> risk_score,
        risk_explanation |-> Explain(RequisitionDTO(erp_requisition_id)),
        decision |-> DetermineDecision(risk_score),
        state |-> "pending_commit",
        commit_at |-> t + GracePeriodMinutes,
        created_at |-> t,
        committed_at |-> NoneVal,
        error_message |-> NoText,
        comment |-> GenerateComment(risk_score, DetermineDecision(risk_score))]

\* The ApprovalDecision built for one candidate (orchestrator.py 141-165);
\* created_at is the server default now() of the INSERT.
NewDecision(id, erp_requisition_id, t, auto) ==
    LET risk_score == Score(RequisitionDTO(erp_requisition_id))
    IN [id |-> id,
        erp_requisition_id |-> erp_requisition_id,
        risk_score |-> risk_score,
        risk_explanation |-> Explain(RequisitionDTO(erp_requisition_id)),
        decision |-> DetermineDecision(risk_score),
        state |-> IF auto THEN "pending_commit" ELSE "detected",
        commit_at |-> t + GracePeriodMinutes,
        created_at |-> t,
        committed_at |-> NoneVal,
        error_message |-> NoText,
        comment |-> GenerateComment(risk_score, DetermineDecision(risk_score))]

(***************************************************************************)
(* What happens to one candidate inside the try block of the loop          *)
(* (orchestrator.py 113-184):                                              *)
(*   ok      nothing raises                                                *)
(*   raises  the duplicate check, the scoring or the explanation raises    *)
(*           without a statement having failed in the database             *)
(*   aborts  the SELECT of the duplicate check fails in the database: the  *)
(*           session's transaction (config.py 67-72: PostgreSQL; session.py *)
(*           33-37: no autocommit) is aborted and, the except block doing  *)
(*           no rollback, every later statement of the call fails, the     *)
(*           INSERTs of the final commit included                          *)
(***************************************************************************)
ItemOutcomes == {"ok", "raises", "aborts"}

AllOk(cands) == [i \in 1..Len(cands) |-> "ok"]

\* the transaction is aborted once candidates 1..i have been processed
Aborted(outcomes, i) == \E j \in 1..i : outcomes[j] = "aborts"

\* candidate i gets past the duplicate check and reaches db.add
ReachesAdd(cands, outcomes, st, i) ==
    /\ outcomes[i] = "ok"
    /\ ~Aborted(outcomes, i - 1)
    /\ ~HasActiveDecision(cands[i], st)

\* The candidates of the batch that reach db.add, in batch order.
\* autoflush is off: decisions added earlier in the same batch are not yet
\* in the store when _has_active_decision runs its SELECT.
StagedItems(cands, outcomes, st) ==
    LET added == SelectSeq([i \in 1..Len(cands) |-> i],
                           LAMBDA i : ReachesAdd(cands, outcomes, st, i))
    IN [k \in 1..Len(added) |-> cands[added[k]]]

\* the same when nothing raises
StagedCandidates(cands, st) == StagedItems(cands, AllOk(cands), st)

\* staged_decisions of one call
StagedDecisionsItems(cands, outcomes, st, t, auto) ==
    LET passed == StagedItems(cands, outcomes, st)
    IN [k \in 1..Len(passed) |-> NewDecision(Len(st) + k, passed[k], t, auto)]

StagedDecisions(cands, st, t, auto) ==
    StagedDecisionsItems(cands, AllOk(cands), st, t, auto)

\* Variant of Persisted in which each decision is written as it is added
Persisted_PerItem(st, staged, commit_ok) ==
    IF commit_ok \/ staged = <<>> THEN st \o staged ELSE st \o <<staged[1]>>

\* orchestrator.py 186-193: db.commit() of the call, or its rollback
Persisted(st, staged, commit_ok) == IF commit_ok THEN st \o staged ELSE st

DetectAndStageItems(cands, outcomes, fetch_ok, commit_ok) ==
    LET staged == StagedDecisionsItems(cands, outcomes, store, now,
                                       auto_commit_enabled)
        committed == commit_ok /\ ~Aborted(outcomes, Len(cands))
    IN /\ Len(store) + Len(staged) <= MaxDecisions
       /\ IF ~fetch_ok \/ cands = <<>>
          THEN /\ store' = store
               /\ ret' = Ret("detect", 0, FALSE)
          ELSE /\ store' = Persisted(store, staged, committed)
               /\ ret' = Ret("detect", IF committed THEN Len(staged) ELSE 0, FALSE)
       /\ UNCHANGED <<now, auto_commit_enabled, workerVars, notification_logs,
                      scored, connectorVars, other_submitted, staging>>

\* no detect_and_stage call is between its loop and its db.commit()
NoStaging == [open |-> FALSE, reqs |-> <<>>, at |-> 0]

\* orchestrator.py 100-184 of a call that fetched candidates: the loop has
\* run, the decisions that passed _has_active_decision are in the session
\* (autoflush is off, nothing is written yet).  The call has not returned.
StageBegin(cands) ==
    /\ ~staging.open
    /\ cands # <<>>
    /\ staging' = [open |-> TRUE, reqs |-> StagedCandidates(cands, store), at |-> now]
    /\ UNCHANGED <<now, auto_commit_enabled, store, workerVars, notification_logs,
                   scored, fetched, connectorVars, other_submitted, ret>>

\* orchestrator.py 186-195 of that call: db.commit(), or its rollback; the
\* INSERTs carry what the loop built
StageEnd(commit_ok) ==
    LET staged == [k \in 1..Len(staging.reqs) |->
                      NewDecision(Len(store) + k, staging.reqs[k], staging.at,
                                  auto_commit_enabled)]
    IN /\ staging.open
       /\ Len(store) + Len(staged) <= MaxDecisions
       /\ store' = Persisted(store, staged, commit_ok)
       /\ ret' = Ret("detect", IF commit_ok THEN Len(staged) ELSE 0, FALSE)
       /\ staging' = NoStaging
       /\ UNCHANGED <<now, auto_commit_enabled, workerVars, notification_logs,
                      scored, fetched, connectorVars, other_submitted>>

\* detect_and_stage_requisitions when no candidate raises
DetectAndStage(cands, fetch_ok, commit_ok) ==
    /\ DetectAndStageItems(cands, AllOk(cands), fetch_ok, commit_ok)
    /\ UNCHANGED fetched

(***************************************************************************)
(* undo_decision, approve_decision, reject_decision                        *)
(***************************************************************************)

\* orchestrator.py 240-243: the cancelled row
Cancelled(row) ==
    [row EXCEPT !.state = "cancelled", !.comment = CancelledComment(@)]

\* Variant of ManuallyDecided that also moves commit_at to the decision time
ManuallyDecided_Restamp(row, decision, t) ==
    [row EXCEPT !.decision = decision, !.state = "committed", !.committed_at = t,
                !.commit_at = t]

\* Variant of ManuallyDecided that records the outcome and leaves the commit
\* to the worker
ManuallyDecided_Staged(row, decision, t) == [row EXCEPT !.decision = decision]

\* orchestrator.py 330-340 / 382-392: the manually decided row with its note
Noted(row, decision, comment) ==
    [row EXCEPT !.comment = DecidedComment(@, decision, comment)]

\* orchestrator.py 330-332 / 382-384: the manually decided row
ManuallyDecided(row, decision, t) ==
    [row EXCEPT !.decision = decision, !.state = "committed", !.committed_at = t]

UndoDecision(erp_requisition_id, commit_ok) ==
    LET found == FindPendingDecision(erp_requisition_id, store)
    IN /\ IF found = {}
          THEN /\ store' = store
               /\ ret' = Ret("undo", 0, FALSE)
          ELSE \E d \in found :
                  IF commit_ok
                  THEN /\ store' = [store EXCEPT ![d] = Cancelled(@)]
                       /\ ret' = Ret("undo", d, FALSE)
                  ELSE /\ store' = store
                       /\ ret' = Ret("undo", 0, FALSE)
       /\ UNCHANGED <<now, auto_commit_enabled, workerVars, outsideVars>>

\* approve_decision with the caller's comment
ApproveDecisionWith(erp_requisition_id, comment, commit_ok) ==
    LET found == FindPendingDecision(erp_requisition_id, store)
    IN /\ IF found = {}
          THEN /\ store' = store
               /\ ret' = Ret("approve", 0, FALSE)
          ELSE \E d \in found :
                  IF commit_ok
                  THEN /\ store' = [store EXCEPT
                                      ![d] = Noted(ManuallyDecided(@, "manual_approve", now),
                                                   "manual_approve", comment)]
                       /\ ret' = Ret("approve", d, FALSE)
                  ELSE /\ store' = store
                       /\ ret' = Ret("approve", 0, FALSE)
       /\ UNCHANGED <<now, auto_commit_enabled, workerVars, outsideVars>>

\* approve_decision called without a comment (the parameter's default)
ApproveDecision(erp_requisition_id, commit_ok) ==
    ApproveDecisionWith(erp_requisition_id, NoComment, commit_ok)

\* reject_decision with the caller's comment
RejectDecisionWith(erp_requisition_id, comment, commit_ok) ==
    LET found == FindPendingDecision(erp_requisition_id, store)
    IN /\ IF found = {}
          THEN /\ store' = store
               /\ ret' = Ret("reject", 0, FALSE)
          ELSE \E d \in found :
                  IF commit_ok
                  THEN /\ store' = [store EXCEPT
                                      ![d] = Noted(ManuallyDecided(@, "reject", now),
                                                   "reject", comment)]
                       /\ ret' = Ret("reject", d, FALSE)
                  ELSE /\ store' = store
                       /\ ret' = Ret("reject", 0, FALSE)
       /\ UNCHANGED <<now, auto_commit_enabled, workerVars, outsideVars>>

\* reject_decision called without a comment
RejectDecision(erp_requisition_id, commit_ok) ==
    RejectDecisionWith(erp_requisition_id, NoComment, commit_ok)

(***************************************************************************)
(* The connector's answer to submit_approval, as the worker sees it.       *)
(*   ok, simulated, already_processed, error: a dict with that status      *)
(*   no_status: a dict without "status";  non_dict: not a dict             *)
(*   raises: the call raised                                               *)
(***************************************************************************)
SubmitResults ==
    {"ok", "simulated", "already_processed", "error", "no_status", "non_dict", "raises"}

\* Lengths of str(exception) the failures are tried with
ErrorLengths == {80, 500, 501}

\* worker.py 192: result.get("status") if isinstance(result, dict) else None
ErpStatus(result) ==
    IF result \in {"no_status", "non_dict"} THEN "None" ELSE result

\* CommitWorker._ACCEPTED_ERP_STATUSES
ACCEPTED_ERP_STATUSES == {"ok", "simulated"}

\* Variant of ResponseAccepted without the already_processed branch
ResponseAccepted_NoAlready(erp_status) == erp_status \in ACCEPTED_ERP_STATUSES

\* worker.py 194-204: TRUE when the response validation lets the commit go on
ResponseAccepted(erp_status) ==
    IF erp_status = "already_processed" THEN TRUE
    ELSE erp_status \in ACCEPTED_ERP_STATUSES

\* TRUE when _process_single_decision raises for this answer
ProcessRaises(result) ==
    result = "raises" \/ ~ResponseAccepted(ErpStatus(result))

\* str(exception): a text known by where it comes from and by its length.
\* worker.py 202-204 builds "ERP commit rejected: status=..., payload=...";
\* an exception of the connector brings its own text.
ExceptionText(result, len) ==
    [src |-> IF result = "raises" THEN "connector" ELSE "ERP commit rejected",
     len |-> len]

\* Variant of Truncated that stores the whole text
Truncated_None(text) == text

\* str(exception)[:500]
Truncated(text) == [text EXCEPT !.len = Min(text.len, ErrorMessageLimit)]

\* Variant of MarkAsFailed that leaves the decision to the next tick
MarkAsFailed_Retries(decision, text) ==
    [decision EXCEPT !.error_message = Truncated(text)]

\* CommitWorker._mark_as_failed
MarkAsFailed(decision, text) ==
    [decision EXCEPT !.state = "failed", !.error_message = Truncated(text)]

\* worker.py 207-209
MarkAsCommitted(decision, t) ==
    [decision EXCEPT !.state = "committed", !.committed_at = t]

\* What send_post_commit_notifications does: it adds the e-mail log, then the
\* Slack log, to the session; when building or adding one raises, the logs
\* added before stay in the session and the exception goes to the caller.
NotifyResults == {"sent", "email_raises", "slack_raises"}

\* NotificationService._send_email_notification / _send_slack_notification:
\* the NotificationLog row (for: the decision it was built from)
NotificationLog(d, decision, channel) ==
    [for |-> d, erp_requisition_id |-> decision.erp_requisition_id,
     decision |-> decision.decision, channel |-> channel, status |-> "sent"]

\* NotificationService.send_post_commit_notifications: the logs added
SendPostCommitNotifications(d, decision, notif) ==
    IF notif = "email_raises" THEN {}
    ELSE IF notif = "slack_raises" THEN {NotificationLog(d, decision, "email")}
    ELSE {NotificationLog(d, decision, "email"), NotificationLog(d, decision, "slack")}

\* Variant of AfterDispatch in which a failed dispatch fails the decision
AfterDispatch_Propagates(decision, notif) ==
    IF notif = "sent" THEN decision
    ELSE [decision EXCEPT !.state = "failed", !.error_message = [src |-> "connector", len |-> 80]]

\* worker.py 221-235: the try/except around the dispatch swallows its
\* exception, so the committed decision is what it was before the dispatch
AfterDispatch(decision, notif) == decision

\* worker.py 164-174: the double-commit guard.  The SELECT by id returns the
\* object the session already holds for that row, so the state tested is the
\* one the session holds.
GuardSkips(d, sess) == sess[d].state # "pending_commit"

\* Variant of NextPc in which a failure ends the loop
NextPc_StopOnFailure(idx, n, raised) ==
    IF raised THEN "commit" ELSE IF idx < n THEN "loop" ELSE "commit"

\* CommitWorker.run 105-126: the for loop goes on to the next candidate after
\* a commit, a skip or a failure alike; after the last one comes db.commit()
NextPc(idx, n, raised) == IF idx < n THEN "loop" ELSE "commit"

NoSession == [d \in {} |-> 0]

\* CommitWorker.run 92-103, up to the start of the loop.  Ticks come from the
\* scheduler, which main.py starts only when auto-commit is enabled.
WorkerQuery ==
    /\ wpc = "idle"
    /\ auto_commit_enabled
    /\ LET due == ListPendingCommits(store, now)
       IN IF due = {}
          THEN /\ ret' = Ret("run", 0, FALSE)
               /\ UNCHANGED workerVars
          ELSE \E order \in OrderedByCommitAt(due, store) :
                 /\ wlist' = order
                 /\ wloaded' = [d \in due |-> store[d]]
                 /\ wsess' = [d \in due |-> store[d]]
                 /\ widx' = 1
                 /\ wpc' = "loop"
                 /\ wquery' = now
                 /\ wsubmitted' = <<>>
                 /\ wlogs' = {}
                 /\ ret' = Ret("query", Cardinality(due), FALSE)
    /\ UNCHANGED <<now, auto_commit_enabled, store, outsideVars>>

\* One turn of the loop of CommitWorker.run: _process_single_decision (with
\* its notification dispatch, whose exception it swallows) and, when it
\* raises, _mark_as_failed
WorkerTurn(result, errlen, notif) ==
    /\ wpc = "loop"
    /\ LET d == wlist[widx]
       IN IF GuardSkips(d, wsess)
          THEN /\ result = "ok"
               /\ errlen = 80
               /\ UNCHANGED <<wsess, wsubmitted, wlogs>>
               /\ wpc' = NextPc(widx, Len(wlist), FALSE)
               /\ ret' = Ret("skipped", d, FALSE)
          ELSE /\ wsubmitted' = Append(wsubmitted, d)
               /\ IF ProcessRaises(result)
                  THEN /\ wsess' = [wsess EXCEPT
                                      ![d] = MarkAsFailed(@, ExceptionText(result, errlen))]
                       /\ wlogs' = wlogs
                       /\ wpc' = NextPc(widx, Len(wlist), TRUE)
                       /\ ret' = [Ret("failed", d, FALSE) EXCEPT !.result = result]
                  ELSE /\ errlen = 80
                       /\ LET committed == MarkAsCommitted(wsess[d], now)
                          IN /\ wlogs' = wlogs \cup
                                    SendPostCommitNotifications(d, committed, notif)
                             /\ wsess' = [wsess EXCEPT
                                             ![d] = AfterDispatch(committed, notif)]
                       /\ wpc' = NextPc(widx, Len(wlist), FALSE)
                       /\ ret' = [Ret("committed", d, FALSE) EXCEPT !.result = result]
    /\ widx' = widx + 1
    /\ UNCHANGED <<now, auto_commit_enabled, store, wquery, wlist, wloaded,
                   notification_logs, scored, fetched, mock_connected, sap,
                   adapter, other_submitted, staging>>

\* The same turn with a connector whose answer is given: the worker keeps
\* nothing of the connector but the answer
WorkerProcessWith(result, errlen, notif) ==
    /\ WorkerTurn(result, errlen, notif)
    /\ UNCHANGED erp_sim

\* One turn of the loop, whatever the notification dispatch does
WorkerProcess(result, errlen) ==
    \E notif \in NotifyResults : WorkerProcessWith(result, errlen, notif)

\* The UPDATE the flush issues for one object: the attributes whose value
\* differs from the loaded one are written to the row, the others are not
Flushed(row, loaded, current) ==
    [f \in DOMAIN row |-> IF current[f] # loaded[f] THEN current[f] ELSE row[f]]

\* Variant of Commit whose UPDATE is keyed on the requisition, not on the id
Commit_ByRequisition(st, loaded, sess) ==
    [d \in Ids(st) |->
        IF \E e \in DOMAIN sess : sess[e].erp_requisition_id = st[d].erp_requisition_id
        THEN LET e == CHOOSE e \in DOMAIN sess :
                          sess[e].erp_requisition_id = st[d].erp_requisition_id
             IN [st[d] EXCEPT !.state = sess[e].state,
                              !.committed_at = sess[e].committed_at,
                              !.error_message = sess[e].error_message]
        ELSE st[d]]

\* db.commit() of the tick
Commit(st, loaded, sess) ==
    [d \in Ids(st) |-> IF d \in DOMAIN sess
                       THEN Flushed(st[d], loaded[d], sess[d])
                       ELSE st[d]]

\* Variant of Rollback that keeps what the tick wrote
Rollback_None(st, loaded, sess) == Commit(st, loaded, sess)

\* db.rollback() of the tick
Rollback(st, loaded, sess) == st

\* CommitWorker.run 126-140: the end-of-tick db.commit(), or its failure
WorkerCommit(commit_ok) ==
    /\ wpc = "commit"
    /\ IF commit_ok
       THEN /\ store' = Commit(store, wloaded, wsess)
            /\ notification_logs' = notification_logs \cup wlogs
            /\ ret' = Ret("run", Len(wlist), FALSE)
       ELSE /\ store' = Rollback(store, wloaded, wsess)
            /\ notification_logs' = notification_logs
            /\ ret' = Ret("run", Len(wlist), TRUE)
    /\ wpc' = "idle"
    /\ wlist' = <<>>
    /\ widx' = 0
    /\ wquery' = 0
    /\ wloaded' = NoSession
    /\ wsess' = NoSession
    /\ wsubmitted' = <<>>
    /\ wlogs' = {}
    /\ UNCHANGED <<now, auto_commit_enabled, scored, fetched, connectorVars,
                   staging>>

(***************************************************************************)
(* MockERPAdapter: the simulated ERP, kept in erp_simulated_requisitions.  *)
(* Every call opens its own short-lived session.                           *)
(***************************************************************************)
\* the adapter instances that share the table
MockAdapters == {1, 2}

\* _SEED_DATA: the requisition ids of its first two rows
SEED_DATA == <<"PR-2026-001", "PR-2026-002">>

\* the ids the calls are made with: the seeded ones and one that is not
SimIds == Range(SEED_DATA) \cup {"PR-X"}

DECISION_STATUS_MAP ==
    [approve |-> "approved", auto_approve |-> "approved",
     manual_approve |-> "approved", reject |-> "rejected",
     cancel |-> "cancelled", hold |-> "cancelled"]

\* the decisions submitted: the known ones and one that is not in the map
SubmittedDecisions == DOMAIN DECISION_STATUS_MAP \cup {"escalate"}

TERMINAL_STATUSES == {"approved", "rejected", "cancelled"}

\* mock_adapter.py 209-215
NewStatus(decision) ==
    IF decision \in DOMAIN DECISION_STATUS_MAP
    THEN DECISION_STATUS_MAP[decision]
    ELSE "cancelled"

SimulatedRequisition(id) == [erp_requisition_id |-> id, status |-> "pending"]

RowsOf(rows, id) == {i \in 1..Len(rows) : rows[i].erp_requisition_id = id}

\* _get_or_create
GetOrCreate(rows, id) ==
    IF RowsOf(rows, id) # {} THEN rows ELSE Append(rows, SimulatedRequisition(id))

SeedRows == [k \in 1..Len(SEED_DATA) |-> SimulatedRequisition(SEED_DATA[k])]

\* Variant of SeedIfEmpty that inserts the seed rows on every connect
SeedIfEmpty_Always(rows) == rows \o SeedRows

\* _seed_if_empty
SeedIfEmpty(rows) == IF Len(rows) > 0 THEN rows ELSE SeedRows

\* connect(); db_ok is false when the seeding session raises
MockConnect(a, db_ok) ==
    /\ IF mock_connected[a]
       THEN /\ UNCHANGED <<erp_sim, mock_connected>>
            /\ ret' = Ret("connect", 0, FALSE)
       ELSE IF db_ok
       THEN /\ erp_sim' = SeedIfEmpty(erp_sim)
            /\ mock_connected' = [mock_connected EXCEPT ![a] = TRUE]
            /\ ret' = Ret("connect", 0, FALSE)
       ELSE /\ UNCHANGED <<erp_sim, mock_connected>>
            /\ ret' = Ret("connect", 0, TRUE)
    /\ UNCHANGED <<coreVars, adapter, sap>>

MockDisconnect(a) ==
    /\ mock_connected' = [mock_connected EXCEPT ![a] = FALSE]
    /\ ret' = Ret("disconnect", 0, FALSE)
    /\ UNCHANGED <<coreVars, adapter, erp_sim, sap>>

\* fetch_pending_requisitions: the rows with status "pending"
PendingRows(rows) == SelectSeq(rows, LAMBDA row : row.status = "pending")

MockFetch(a) ==
    /\ ret' = Ret("fetch", Len(PendingRows(erp_sim)), FALSE)
    /\ UNCHANGED <<coreVars, connectorVars>>

MockGetDetails(a, id) ==
    /\ erp_sim' = GetOrCreate(erp_sim, id)
    /\ ret' = Ret("details", 1, FALSE)
    /\ UNCHANGED <<coreVars, adapter, mock_connected, sap>>

\* Variant of Submitted without the terminal-state guard
Submitted_Overwrite(row, decision) == [row EXCEPT !.status = NewStatus(decision)]

\* mock_adapter.py 217-238: the row after submit_approval
Submitted(row, decision) ==
    IF row.status \in TERMINAL_STATUSES
    THEN row
    ELSE [row EXCEPT !.status = NewStatus(decision)]

\* the "status" of the payload submit_approval returns
SubmitStatus(row) ==
    IF row.status \in TERMINAL_STATUSES THEN "already_processed" ELSE "simulated"

\* submit_approval; db_ok is false when its session raises
MockSubmit(a, id, decision, db_ok) ==
    /\ IF db_ok
       THEN LET rows == GetOrCreate(erp_sim, id)
                i == CHOOSE i \in RowsOf(rows, id) : TRUE
            IN /\ erp_sim' = [rows EXCEPT ![i] = Submitted(@, decision)]
               /\ ret' = [Ret("submit", 1, FALSE) EXCEPT
                             !.result = SubmitStatus(rows[i])]
       ELSE /\ erp_sim' = erp_sim
            /\ ret' = Ret("submit", 0, TRUE)
    /\ UNCHANGED <<coreVars, adapter, mock_connected, sap>>

(***************************************************************************)
(* SAPERPAdapter: the live HTTP connector.  A call of session.request or   *)
(* session.get is an exchange: the transport (urllib3 Retry) sends the     *)
(* request again while the answer is a transient status and retries are    *)
(* left, and then hands the last answer over.  One step of the model is    *)
(* one answer of the upstream.                                             *)
(***************************************************************************)
RETRY_STATUS_CODES == {429, 500, 502, 503, 504}

\* the transport gave up with an exception (time-out, connection error)
TransportError == 0

\* what the upstream can answer
HttpAnswers == RETRY_STATUS_CODES \cup {200, 401, 403, 404, TransportError}

\* response.ok
ResponseOk(status) == 200 <= status /\ status < 400

\* SAP_API_KEY or SAP_USERNAME + SAP_PASSWORD are set, or nothing is
Credentials == {"configured", "absent"}

\* an upstream does not answer 200 to a request without credentials
Answers(credentials) ==
    IF credentials = "absent" THEN HttpAnswers \ {200} ELSE HttpAnswers

\* SAPERPAdapter.__init__
NewSap(credentials) ==
    [credentials |-> credentials,
     connected |-> FALSE,      \* _connected
     session |-> 0,            \* _session: 0 is None, else the session object
     sessions |-> 0,           \* requests.Session objects created so far
     csrf_token |-> FALSE,     \* _csrf_token is not None
     op |-> "-",               \* the method of the adapter called last
     phase |-> "idle",         \* the exchange in progress
     method |-> "-",           \* HTTP method of the operation in progress
     retries |-> 0,            \* retries of the exchange in progress
     sends |-> 0,              \* session.request calls of _execute_request
     refreshes |-> 0,          \* token refreshes after a 403
     result |-> "-"]           \* how the last call ended

\* Variant of AlreadyConnected that never takes the early return
AlreadyConnected_Never(s) == FALSE

\* sap_adapter.py 117: the guard of connect()
AlreadyConnected(s) == s.connected /\ s.session # 0

\* connect(), up to its call of _fetch_csrf_token
SapConnect ==
    /\ sap.phase = "idle"
    /\ IF AlreadyConnected(sap)
       THEN sap' = [sap EXCEPT !.op = "connect", !.result = "skipped"]
       ELSE /\ sap.sessions < MaxSessions
            /\ sap' = [sap EXCEPT !.session = sap.sessions + 1,
                                  !.sessions = sap.sessions + 1,
                                  !.op = "connect",
                                  !.phase = "connect_token",
                                  !.method = "GET",
                                  !.retries = 0,
                                  !.sends = 0,
                                  !.refreshes = 0,
                                  !.result = "-"]
    /\ UNCHANGED <<coreVars, adapter, erp_sim, mock_connected, ret>>

\* disconnect(): the connector after it
Disconnected(s) ==
    [s EXCEPT !.session = 0, !.csrf_token = FALSE, !.connected = FALSE,
              !.op = "disconnect", !.result = "disconnected"]

SapDisconnect ==
    /\ sap.phase = "idle"
    /\ sap' = Disconnected(sap)
    /\ UNCHANGED <<coreVars, adapter, erp_sim, mock_connected, ret>>


\* Variant of EnsureConnected that lets every call through
EnsureConnected_Always(s) == TRUE

\* _ensure_connected
EnsureConnected(s) == s.connected /\ s.session # 0

\* a read of the adapter, up to its request (a GET); _ensure_connected
\* raises ConnectionError before anything is sent
SapRead(op) ==
    /\ sap.phase = "idle"
    /\ IF ~EnsureConnected(sap)
       THEN sap' = [sap EXCEPT !.op = op, !.result = "not_connected"]
       ELSE sap' = [sap EXCEPT !.op = op, !.phase = "send", !.method = "GET",
                               !.retries = 0, !.sends = 1, !.refreshes = 0,
                               !.result = "-"]
    /\ UNCHANGED <<coreVars, adapter, erp_sim, mock_connected, ret>>

\* fetch_pending_requisitions
SapFetch == SapRead("fetch_pending_requisitions")

\* get_requisition_details
SapGetDetails == SapRead("get_requisition_details")

\* submit_approval, up to its token fetch; its request is a POST
SapSubmit ==
    /\ sap.phase = "idle"
    /\ IF ~EnsureConnected(sap)
       THEN sap' = [sap EXCEPT !.op = "submit_approval",
                               !.result = "not_connected"]
       ELSE sap' = [sap EXCEPT !.op = "submit_approval",
                               !.phase = "submit_token", !.method = "POST",
                               !.retries = 0, !.sends = 0, !.refreshes = 0,
                               !.result = "-"]
    /\ UNCHANGED <<coreVars, adapter, erp_sim, mock_connected, ret>>

\* Variant of Retried with one retry more
Retried_OneMore(status, retries) ==
    status \in RETRY_STATUS_CODES /\ retries < MAX_RETRIES + 1

\* Retry(total = _MAX_RETRIES, status_forcelist = _RETRY_STATUS_CODES): the
\* transport sends the request again
Retried(status, retries) ==
    status \in RETRY_STATUS_CODES /\ retries < MAX_RETRIES

\* Variant of NeedsRefresh that also refreshes for a GET
NeedsRefresh_AnyMethod(status, method) == status = 403

\* sap_adapter.py 491: the answer that makes _execute_request refresh the token
NeedsRefresh(status, method) == status = 403 /\ method # "GET"

\* _fetch_csrf_token 573-595: the token is the answer's X-CSRF-Token header,
\* None when the header is missing or the request raised
TokenOf(status, header) == status # TransportError /\ header

\* sap_adapter.py 508-551: how _execute_request ends, seen by the caller.
\* fetch_pending_requisitions lets the RuntimeError through, submit_approval
\* turns it into a payload with status "error"
Finished(s, status) ==
    [s EXCEPT !.phase = "idle",
              !.result = IF status # TransportError /\ ResponseOk(status) THEN "ok"
                         ELSE IF s.method = "GET" THEN "raised"
                         ELSE "error"]

\* sap_adapter.py 167-171: connect() after its call of _fetch_csrf_token,
\* whatever the answer was
Negotiated(s, status, header) ==
    [s EXCEPT !.csrf_token = TokenOf(status, header),
              !.connected = TRUE,
              !.phase = "idle",
              !.result = "connected"]

\* One answer of the upstream to the exchange in progress; header tells
\* whether the answer carries an X-CSRF-Token header
SapAnswer(status, header) ==
    /\ sap.phase # "idle"
    /\ status \in Answers(sap.credentials)
    /\ IF Retried(status, sap.retries)
       THEN sap' = [sap EXCEPT !.retries = @ + 1]
       ELSE IF sap.phase = "connect_token"
       THEN sap' = Negotiated(sap, status, header)
       ELSE IF sap.phase = "submit_token"
       THEN sap' = [sap EXCEPT !.csrf_token = TokenOf(status, header),
                               !.phase = "send",
                               !.retries = 0,
                               !.sends = 1]
       ELSE IF sap.phase = "send"
       THEN IF NeedsRefresh(status, sap.method)
            THEN sap' = [sap EXCEPT !.phase = "refresh",
                                    !.retries = 0,
                                    !.refreshes = @ + 1]
            ELSE sap' = Finished(sap, status)
       ELSE IF sap.phase = "refresh"
       THEN sap' = [sap EXCEPT !.csrf_token = TokenOf(status, header),
                               !.phase = "resend",
                               !.retries = 0,
                               !.sends = @ + 1]
       ELSE sap' = Finished(sap, status)
    /\ UNCHANGED <<coreVars, adapter, erp_sim, mock_connected, ret>>

(***************************************************************************)
(* worker.py's global _adapter and set_adapter.  The active connector is   *)
(* known by its kind, by the instance it is (made: the number of           *)
(* connectors set_adapter has constructed so far) and, for a simulated     *)
(* one, by the entry of mock_connected that holds its _connected.          *)
(***************************************************************************)
NoAdapter == [kind |-> "none", slot |-> 0, made |-> 0]

\* the modes set_adapter is called with: the three it knows and one it does not
Modes == {"mock", "sap", "hybrid", "other"}

\* HybridERPAdapter is a SAPERPAdapter: connect() and disconnect() are inherited
LiveKinds == {"sap", "hybrid"}

\* the entry of mock_connected a new MockERPAdapter takes: not the one of the
\* connector being replaced
FreeSlot(ad) == IF ad.kind = "mock" /\ ad.slot = 1 THEN 2 ELSE 1

\* _connected of the connector ad, given the connectors' state
IsConnected(ad, mock, live) ==
    IF ad.kind = "mock" THEN mock[ad.slot]
    ELSE IF ad.kind \in LiveKinds THEN live.connected
    ELSE FALSE

\* set_adapter(mode).  db_ok is false when the seeding session of a new
\* simulated connector raises; status and header are the upstream's answer
\* to the token fetch of a new live connector (whose connect() raises
\* nothing, whatever the answer).
SetAdapter(mode, db_ok, status, header) ==
    /\ sap.phase = "idle"
    /\ adapter.made < MaxSwitches
    /\ status \in Answers(sap.credentials)
    /\ LET torn_mock == IF adapter.kind = "mock"
                        THEN [mock_connected EXCEPT ![adapter.slot] = FALSE]
                        ELSE mock_connected
           torn_live == IF adapter.kind \in LiveKinds THEN Disconnected(sap) ELSE sap
           slot == FreeSlot(adapter)
       IN IF mode = "mock"
          THEN /\ adapter' = [kind |-> mode, slot |-> slot, made |-> adapter.made + 1]
               /\ mock_connected' = [torn_mock EXCEPT ![slot] = db_ok]
               /\ erp_sim' = IF db_ok THEN SeedIfEmpty(erp_sim) ELSE erp_sim
               /\ sap' = torn_live
               /\ ret' = Ret("set_adapter", 1, ~db_ok)
          ELSE IF mode \in LiveKinds
          THEN /\ adapter' = [kind |-> mode, slot |-> 0, made |-> adapter.made + 1]
               /\ mock_connected' = torn_mock
               /\ erp_sim' = erp_sim
               /\ sap' = Negotiated([NewSap(sap.credentials) EXCEPT
                                        !.session = 1, !.sessions = 1,
                                        !.op = "connect", !.method = "GET"],
                                    status, header)
               /\ ret' = Ret("set_adapter", 1, FALSE)
          ELSE /\ adapter' = adapter
               /\ mock_connected' = torn_mock
               /\ erp_sim' = erp_sim
               /\ sap' = torn_live
               /\ ret' = Ret("set_adapter", 0, TRUE)
    /\ UNCHANGED coreVars

(***************************************************************************)
(* Environment: the clock, and a restart of the process with the other     *)
(* AUTO_COMMIT_ENABLED setting (the store outlives the process; the        *)
(* scheduler is started only when auto-commit is enabled).                 *)
(***************************************************************************)
\* The calls happen at multiples of the grace period
Advance ==
    /\ now + GracePeriodMinutes <= MaxTime
    /\ now' = now + GracePeriodMinutes
    /\ UNCHANGED <<auto_commit_enabled, store, workerVars, outsideVars, ret>>

\* config.py 52: the default of DEMO_MODE
DEMO_MODE == FALSE

\* Variant of Lifespan that schedules the detected decisions when the process
\* starts with auto-commit enabled
Lifespan_Promotes(demo_mode, auto_commit, reset_ok) ==
    /\ wpc = "idle"
    /\ auto_commit_enabled' = auto_commit
    /\ IF demo_mode /\ reset_ok
       THEN /\ store' = <<>>
            /\ erp_sim' = <<>>
       ELSE /\ store' = [d \in Ids(store) |->
                           IF auto_commit /\ store[d].state = "detected"
                           THEN [store[d] EXCEPT !.state = "pending_commit"]
                           ELSE store[d]]
            /\ erp_sim' = erp_sim
    /\ ret' = Ret("restart", 0, FALSE)
    /\ UNCHANGED <<now, workerVars, notification_logs, scored, fetched,
                   mock_connected, sap, adapter, other_submitted, staging>>

\* main.py 54-92: the start of a process with the given settings; reset_ok
\* is false when the demo reset raises (it is rolled back)
Lifespan(demo_mode, auto_commit, reset_ok) ==
    /\ wpc = "idle"
    /\ auto_commit_enabled' = auto_commit
    /\ IF demo_mode /\ reset_ok
       THEN /\ store' = <<>>
            /\ erp_sim' = <<>>
       ELSE UNCHANGED <<store, erp_sim>>
    /\ ret' = Ret("restart", 0, FALSE)
    /\ UNCHANGED <<now, workerVars, notification_logs, scored, fetched,
                   mock_connected, sap, adapter, other_submitted, staging>>

\* a restart with the other AUTO_COMMIT_ENABLED setting
Restart == Lifespan(DEMO_MODE, ~auto_commit_enabled, TRUE)

Candidates == UNION {[1..n -> ReqIds] : n \in 0..MaxBatch}

\* fetched is the batch given to the last call of StageFetched, with what
\* happens to each of its candidates; no call yet
NoFetch == [cands |-> <<>>, outcomes |-> <<>>]

\* a score not yet computed
NoScore == [risk_score |-> NoneVal, decision |-> "-"]

Init ==
    /\ now = 0
    /\ auto_commit_enabled \in BOOLEAN
    /\ store = <<>>
    /\ wpc = "idle"
    /\ wquery = 0
    /\ wlist = <<>>
    /\ widx = 0
    /\ wloaded = NoSession
    /\ wsess = NoSession
    /\ wsubmitted = <<>>
    /\ wlogs = {}
    /\ notification_logs = {}
    /\ scored = NoScore
    /\ fetched = NoFetch
    /\ erp_sim = <<>>
    /\ mock_connected = [a \in MockAdapters |-> FALSE]
    /\ sap = NewSap("configured")
    /\ adapter = NoAdapter
    /\ other_submitted = <<>>
    /\ staging = NoStaging
    /\ ret = Ret("init", 0, FALSE)

Stage == \E cands \in Candidates, fetch_ok, commit_ok \in BOOLEAN :
            DetectAndStage(cands, fetch_ok, commit_ok)
Undo == \E r \in ReqIds, commit_ok \in BOOLEAN : UndoDecision(r, commit_ok)
Approve == \E r \in ReqIds, commit_ok \in BOOLEAN : ApproveDecision(r, commit_ok)
Reject == \E r \in ReqIds, commit_ok \in BOOLEAN : RejectDecision(r, commit_ok)
Process == \E result \in SubmitResults, errlen \in ErrorLengths :
              WorkerProcess(result, errlen)
EndOfTick == \E commit_ok \in BOOLEAN :
                WorkerCommit(commit_ok) /\ UNCHANGED other_submitted

WorkerIdle == wpc = "idle"

\* Every call runs alone: nothing happens between the query of a tick and
\* its end-of-tick commit
Next ==
    \/ (WorkerIdle /\ Stage)
    \/ (WorkerIdle /\ Undo)
    \/ (WorkerIdle /\ Approve)
    \/ (WorkerIdle /\ Reject)
    \/ WorkerQuery
    \/ Process
    \/ EndOfTick
    \/ (WorkerIdle /\ Advance)
    \/ Restart

Spec == Init /\ [][Next]_vars

\* The API calls and the worker tick run concurrently: a call can commit
\* between any two steps of a tick
NextConcurrent ==
    \/ Stage
    \/ Undo
    \/ Approve
    \/ Reject
    \/ WorkerQuery
    \/ Process
    \/ EndOfTick
    \/ Advance
    \/ Restart

SpecConcurrent == Init /\ [][NextConcurrent]_vars

(***************************************************************************)
(* A human action while the connector calls of a tick are in flight: undo, *)
(* approve and reject run between ticks or after the last turn of the      *)
(* tick's loop (every re-read done) and before its end-of-tick commit,     *)
(* never between the query and a re-read.                                  *)
(***************************************************************************)
AllReread == wpc = "commit"

NextInFlight ==
    \/ (WorkerIdle /\ Stage)
    \/ ((WorkerIdle \/ AllReread) /\ Undo)
    \/ ((WorkerIdle \/ AllReread) /\ Approve)
    \/ ((WorkerIdle \/ AllReread) /\ Reject)
    \/ WorkerQuery
    \/ Process
    \/ EndOfTick
    \/ (WorkerIdle /\ Advance)

SpecInFlight == Init /\ [][NextInFlight]_vars

(***************************************************************************)
(* Two overlapping ticks.  start_scheduler registers _commit_job in a      *)
(* BackgroundScheduler of the process; a second process against the same   *)
(* database (or a tick started by hand) runs CommitWorker.run in a session *)
(* of its own.  The second tick is taken whole, between two steps of the   *)
(* first one.                                                              *)
(***************************************************************************)

\* _process_single_decision plus the except branch of the loop, on one
\* object of the session: what the object is after its turn
Processed(decision, result, errlen, notif, t) ==
    IF ProcessRaises(result)
    THEN MarkAsFailed(decision, ExceptionText(result, errlen))
    ELSE AfterDispatch(MarkAsCommitted(decision, t), notif)

\* CommitWorker.run of a second tick, from its query to its db.commit(),
\* while the first tick is between its query and its commit.  Its session
\* is new, so its re-read returns what its query has just loaded.
OtherTick(results, notif, commit_ok) ==
    /\ wpc # "idle"
    /\ auto_commit_enabled
    /\ LET due == ListPendingCommits(store, now)
           loaded == [d \in due |-> store[d]]
           calls == {d \in due : ~GuardSkips(d, loaded)}
           sess == [d \in due |->
                      IF d \in calls
                      THEN Processed(loaded[d], results[d], 80, notif, now)
                      ELSE loaded[d]]
           logs == UNION {SendPostCommitNotifications(
                              d, MarkAsCommitted(loaded[d], now), notif) :
                          d \in {e \in calls : ~ProcessRaises(results[e])}}
       IN /\ due # {}
          /\ DOMAIN results = due
          /\ \E order \in OrderedByCommitAt(due, store) :
                other_submitted' = SelectSeq(order, LAMBDA d : d \in calls)
          /\ IF commit_ok
             THEN /\ store' = Commit(store, loaded, sess)
                  /\ notification_logs' = notification_logs \cup logs
             ELSE /\ store' = Rollback(store, loaded, sess)
                  /\ notification_logs' = notification_logs
          /\ ret' = Ret("run", Cardinality(due), ~commit_ok)
    /\ UNCHANGED <<now, auto_commit_enabled, workerVars, scored, fetched,
                   connectorVars, staging>>

\* Answers of the connector the second tick is tried with
OtherResults == {"ok", "error", "raises"}

OtherTicks ==
    \E results \in [ListPendingCommits(store, now) -> OtherResults],
       notif \in NotifyResults, commit_ok \in BOOLEAN :
        OtherTick(results, notif, commit_ok)

\* the end of the first tick: the ticks that overlapped it are over
EndOfOverlap ==
    \E commit_ok \in BOOLEAN : WorkerCommit(commit_ok) /\ other_submitted' = <<>>

NextOverlap ==
    \/ (WorkerIdle /\ Stage)
    \/ WorkerQuery
    \/ Process
    \/ OtherTicks
    \/ EndOfOverlap
    \/ (WorkerIdle /\ Advance)

SpecOverlap == Init /\ [][NextOverlap]_vars

(***************************************************************************)
(* Two concurrent detect_and_stage calls (POST /detect runs in FastAPI's   *)
(* thread pool, each request with the session get_db gives it).  One call  *)
(* is taken in two steps, its loop and its db.commit(); the other one is   *)
(* taken whole and may fall between the two.  The connector returns every  *)
(* requisition once, so that a batch has no duplicate of its own.          *)
(***************************************************************************)

\* lists of candidates that name no requisition twice
DistinctCandidates ==
    {cands \in Candidates :
        \A i, j \in 1..Len(cands) : i # j => cands[i] # cands[j]}

StageBegins == \E cands \in DistinctCandidates : StageBegin(cands)
StageEnds == \E commit_ok \in BOOLEAN : StageEnd(commit_ok)
StageWhole == \E cands \in DistinctCandidates, fetch_ok, commit_ok \in BOOLEAN :
                 DetectAndStage(cands, fetch_ok, commit_ok)

NextRace ==
    \/ StageBegins
    \/ StageEnds
    \/ StageWhole
    \/ Undo
    \/ Advance

SpecRace == Init /\ [][NextRace]_vars

(***************************************************************************)
(* _determine_decision on its own: every score the engine can return       *)
(* (0..100) is given to it once; staging, which calls it for each          *)
(* candidate, runs next to it.                                             *)
(***************************************************************************)
Scores == 0..MAX_RISK_SCORE

InitDetermine ==
    /\ now = 0
    /\ auto_commit_enabled \in BOOLEAN
    /\ store = <<>>
    /\ wpc = "idle"
    /\ wquery = 0
    /\ wlist = <<>>
    /\ widx = 0
    /\ wloaded = NoSession
    /\ wsess = NoSession
    /\ wsubmitted = <<>>
    /\ wlogs = {}
    /\ notification_logs = {}
    /\ scored \in {[risk_score |-> s, decision |-> "-"] : s \in Scores}
    /\ fetched = NoFetch
    /\ erp_sim = <<>>
    /\ mock_connected = [a \in MockAdapters |-> FALSE]
    /\ sap = NewSap("configured")
    /\ adapter = NoAdapter
    /\ other_submitted = <<>>
    /\ staging = NoStaging
    /\ ret = Ret("init", 0, FALSE)

Determine ==
    /\ scored.risk_score # NoneVal
    /\ scored.decision = "-"
    /\ scored' = [scored EXCEPT !.decision = DetermineDecision(scored.risk_score)]
    /\ UNCHANGED <<now, auto_commit_enabled, store, workerVars,
                   notification_logs, fetched, connectorVars,
                   other_submitted, staging, ret>>

NextDetermine ==
    \/ Determine
    \/ Stage

SpecDetermine == InitDetermine /\ [][NextDetermine]_vars

(***************************************************************************)
(* detect_and_stage_requisitions on its own: every call is given any       *)
(* batch of candidates, of which at most one fails, in either way, under   *)
(* either AUTO_COMMIT_ENABLED setting.  A failing candidate leaves a store *)
(* that a shorter batch or a failed commit also leaves: Spec, whose        *)
(* batches have no failing candidate, reaches the same stores.             *)
(***************************************************************************)
Outcomes(cands) ==
    {o \in [1..Len(cands) -> ItemOutcomes] :
        Cardinality({i \in 1..Len(cands) : o[i] # "ok"}) <= 1}

Batches ==
    UNION {{[cands |-> c, outcomes |-> o] : o \in Outcomes(c)} : c \in Candidates}

StageFetched == \E batch \in Batches, fetch_ok, commit_ok \in BOOLEAN :
                   /\ DetectAndStageItems(batch.cands, batch.outcomes,
                                          fetch_ok, commit_ok)
                   /\ fetched' = batch

NextStaging == StageFetched

SpecStaging == Init /\ [][NextStaging]_vars

(***************************************************************************)
(* A deployment with DEMO_MODE set: the process can start with the demo    *)
(* reset.  A row's id is its index; after a reset the indices start again  *)
(* (they stand for fresh uuids).                                           *)
(***************************************************************************)
DemoRestart == \E auto_commit, reset_ok \in BOOLEAN :
                  Lifespan(TRUE, auto_commit, reset_ok)

NextDemo ==
    \/ (WorkerIdle /\ Stage)
    \/ (WorkerIdle /\ Undo)
    \/ (WorkerIdle /\ Approve)
    \/ (WorkerIdle /\ Reject)
    \/ WorkerQuery
    \/ Process
    \/ EndOfTick
    \/ (WorkerIdle /\ Advance)
    \/ Restart
    \/ DemoRestart

SpecDemo == Init /\ [][NextDemo]_vars

(***************************************************************************)
(* The simulated ERP on its own: two adapter instances call it in any      *)
(* order.                                                                  *)
(***************************************************************************)
MockConnects == \E a \in MockAdapters, db_ok \in BOOLEAN : MockConnect(a, db_ok)
MockDisconnects == \E a \in MockAdapters : MockDisconnect(a)
MockFetches == \E a \in MockAdapters : MockFetch(a)
MockDetails == \E a \in MockAdapters, id \in SimIds : MockGetDetails(a, id)
MockSubmits == \E a \in MockAdapters, id \in SimIds,
                  decision \in SubmittedDecisions, db_ok \in BOOLEAN :
                  MockSubmit(a, id, decision, db_ok)

NextMock ==
    \/ MockConnects
    \/ MockDisconnects
    \/ MockFetches
    \/ MockDetails
    \/ MockSubmits

SpecMock == Init /\ [][NextMock]_vars

(***************************************************************************)
(* The middleware on the simulated connector: the candidates of            *)
(* detect_and_stage are the pending rows of erp_simulated_requisitions and *)
(* the worker's submit_approval is MockERPAdapter.submit_approval.  The    *)
(* store holds up to MaxSimulated decisions here.                          *)
(***************************************************************************)

\* MockERPAdapter.fetch_pending_requisitions: the ids of the DTOs returned,
\* in the order of the query
FetchedIds(rows) ==
    [i \in 1..Len(PendingRows(rows)) |-> PendingRows(rows)[i].erp_requisition_id]

\* detect_and_stage_requisitions(adapter = the simulated connector)
SimDetect(fetch_ok, commit_ok) ==
    LET cands == FetchedIds(erp_sim)
        staged == StagedDecisions(cands, store, now, auto_commit_enabled)
    IN /\ Len(store) + Len(staged) <= MaxSimulated
       /\ IF ~fetch_ok \/ cands = <<>>
          THEN /\ store' = store
               /\ ret' = Ret("detect", 0, FALSE)
          ELSE /\ store' = Persisted(store, staged, commit_ok)
               /\ ret' = Ret("detect", IF commit_ok THEN Len(staged) ELSE 0, FALSE)
       /\ UNCHANGED <<now, auto_commit_enabled, workerVars, notification_logs,
                      scored, fetched, connectorVars, other_submitted, staging>>

\* One turn of the worker's loop with the simulated connector: the call is
\* submit_approval(requisition_id, decision.decision, comment), which commits
\* the new status of the record in a session of its own; db_ok is false when
\* that session raises
SimProcess(db_ok, notif) ==
    /\ wpc = "loop"
    /\ LET d == wlist[widx]
           id == wsess[d].erp_requisition_id
           rows == GetOrCreate(erp_sim, id)
           i == CHOOSE i \in RowsOf(rows, id) : TRUE
       IN IF GuardSkips(d, wsess)
          THEN /\ db_ok
               /\ erp_sim' = erp_sim
               /\ WorkerTurn("ok", 80, notif)
          ELSE IF db_ok
          THEN /\ erp_sim' = [rows EXCEPT ![i] = Submitted(@, wsess[d].decision)]
               /\ WorkerTurn(SubmitStatus(rows[i]), 80, notif)
          ELSE /\ erp_sim' = erp_sim
               /\ WorkerTurn("raises", 80, notif)

SimConnects == \E db_ok \in BOOLEAN : MockConnect(1, db_ok)
SimDetects == \E fetch_ok, commit_ok \in BOOLEAN : SimDetect(fetch_ok, commit_ok)
SimRejects == \E r \in SimIds, commit_ok \in BOOLEAN : RejectDecision(r, commit_ok)
SimProcesses == \E db_ok \in BOOLEAN, notif \in NotifyResults : SimProcess(db_ok, notif)

NextSimulated ==
    \/ SimConnects
    \/ MockDetails
    \/ (WorkerIdle /\ SimDetects)
    \/ (WorkerIdle /\ SimRejects)
    \/ WorkerQuery
    \/ SimProcesses
    \/ EndOfTick
    \/ (WorkerIdle /\ Advance)

SpecSimulated == Init /\ [][NextSimulated]_vars

(***************************************************************************)
(* The live connector on its own, with and without credentials, against    *)
(* an upstream that answers anything.                                      *)
(***************************************************************************)
InitSap ==
    /\ now = 0
    /\ auto_commit_enabled \in BOOLEAN
    /\ store = <<>>
    /\ wpc = "idle"
    /\ wquery = 0
    /\ wlist = <<>>
    /\ widx = 0
    /\ wloaded = NoSession
    /\ wsess = NoSession
    /\ wsubmitted = <<>>
    /\ wlogs = {}
    /\ notification_logs = {}
    /\ scored = NoScore
    /\ fetched = NoFetch
    /\ erp_sim = <<>>
    /\ mock_connected = [a \in MockAdapters |-> FALSE]
    /\ sap \in {NewSap(c) : c \in Credentials}
    /\ adapter = NoAdapter
    /\ other_submitted = <<>>
    /\ staging = NoStaging
    /\ ret = Ret("init", 0, FALSE)

SapAnswers == \E status \in HttpAnswers, header \in BOOLEAN :
                 SapAnswer(status, header)

NextSap ==
    \/ SapConnect
    \/ SapDisconnect
    \/ SapFetch
    \/ SapGetDetails
    \/ SapSubmit
    \/ SapAnswers

SpecSap == InitSap /\ [][NextSap]_vars

\* Every request carries the time-out SAP_TIMEOUT: the exchange in progress
\* gets its answer, or the transport's exception
SpecSapLive == SpecSap /\ WF_vars(SapAnswers)

(***************************************************************************)
(* connect() and disconnect() of both connectors                           *)
(***************************************************************************)
NextConnect ==
    \/ MockConnects
    \/ MockDisconnects
    \/ SapConnect
    \/ SapDisconnect
    \/ SapAnswers

SpecConnect == InitSap /\ [][NextConnect]_vars

(***************************************************************************)
(* Staging and worker ticks with the clock running one grace period        *)
(* further than in Spec, so that a tick finds decisions of two batches,    *)
(* due at different times.                                                 *)
(***************************************************************************)
AdvanceFurther ==
    /\ now <= MaxTime
    /\ now' = now + GracePeriodMinutes
    /\ UNCHANGED <<auto_commit_enabled, store, workerVars, outsideVars, ret>>

NextOrder ==
    \/ (WorkerIdle /\ Stage)
    \/ WorkerQuery
    \/ Process
    \/ EndOfTick
    \/ (WorkerIdle /\ AdvanceFurther)

SpecOrder == Init /\ [][NextOrder]_vars

(***************************************************************************)
(* The scheduler at work: _commit_job runs every COMMIT_WORKER_INTERVAL    *)
(* seconds for as long as the process lives (start_scheduler 339-348), the *)
(* clock goes on, and a db.commit() that failed is not bound to fail at    *)
(* every later tick.  Decisions are staged while the clock of the model    *)
(* can still reach their commit_at.                                        *)
(***************************************************************************)

StageInTime == now <= MaxTime /\ Stage

\* One turn of the loop with every answer of the connector; the failures
\* carry a short text and the notifications are sent
ProcessLive == \E result \in SubmitResults : WorkerProcessWith(result, 80, "sent")

NextLive ==
    \/ (WorkerIdle /\ StageInTime)
    \/ (WorkerIdle /\ Undo)
    \/ WorkerQuery
    \/ ProcessLive
    \/ EndOfTick
    \/ (WorkerIdle /\ AdvanceFurther)

SpecLive ==
    /\ Init
    /\ [][NextLive]_vars
    /\ WF_vars(WorkerQuery)
    /\ WF_vars(ProcessLive)
    /\ SF_vars(WorkerCommit(TRUE) /\ UNCHANGED other_submitted)
    /\ SF_vars(WorkerIdle /\ AdvanceFurther)

(***************************************************************************)
(* The runtime connector switch, next to connect() and disconnect() of the *)
(* connectors (_commit_job connects the active one before every tick)      *)
(***************************************************************************)
SetAdapters == \E mode \in Modes, db_ok \in BOOLEAN, status \in HttpAnswers,
                  header \in BOOLEAN : SetAdapter(mode, db_ok, status, header)

NextSwitch ==
    \/ SetAdapters
    \/ MockConnects
    \/ MockDisconnects
    \/ SapConnect
    \/ SapDisconnect
    \/ SapAnswers

SpecSwitch == InitSap /\ [][NextSwitch]_vars

(***************************************************************************)
(* The manager's comment: approve and reject are called with each of the   *)
(* texts below (none, plain, and texts that begin or end with a space or    *)
(* a "|"), next to every other operation.                                  *)
(***************************************************************************)
CommentTexts ==
    {NoComment, <<"x">>, <<" ", "x">>, <<"x", " ">>, <<"|", "x", "|">>,
     <<" ", "|">>}

ApproveWith == \E r \in ReqIds, comment \in CommentTexts, commit_ok \in BOOLEAN :
                  ApproveDecisionWith(r, comment, commit_ok)
RejectWith == \E r \in ReqIds, comment \in CommentTexts, commit_ok \in BOOLEAN :
                 RejectDecisionWith(r, comment, commit_ok)

\* The comment of a decision depends on the history of that decision alone:
\* the store holds one decision fewer here than in Spec.
NextComment ==
    \/ (WorkerIdle /\ Stage /\ Len(store') < MaxDecisions)
    \/ (WorkerIdle /\ Undo)
    \/ (WorkerIdle /\ ApproveWith)
    \/ (WorkerIdle /\ RejectWith)
    \/ WorkerQuery
    \/ Process
    \/ EndOfTick
    \/ (WorkerIdle /\ Advance)
    \/ Restart

SpecComment == Init /\ [][NextComment]_vars

TypeOK ==
    /\ now \in 0..MaxTime
    /\ Len(store) <= MaxDecisions
    /\ wpc \in {"idle", "loop", "commit"}

(***************************************************************************)
(* Properties                                                              *)
(***************************************************************************)
SuccessResults == {"ok", "simulated", "already_processed"}
FailureResults == SubmitResults \ SuccessResults

\* the decision the next turn of the worker's loop is about
Current == wlist[widx]

\* C1: once a decision's lifecycle_state is committed, cancelled or failed,
\* no later operation (detect_and_stage, undo, approve, reject, worker tick;
\* each run alone) changes its lifecycle_state.
C1_TerminalStateIsFinal ==
    [][\A d \in Ids(store) :
          store[d].state \in TerminalStates => store'[d].state = store[d].state]_vars

\* C1: a requisition with an older terminal decision whose later decision
\* was staged and brought to a terminal state by later operations
C1_Witness ==
    \E d, e \in Ids(store) :
        /\ store[d].erp_requisition_id = store[e].erp_requisition_id
        /\ store[d].created_at < store[e].created_at
        /\ store[d].state = "cancelled"
        /\ store[e].state = "committed"

\* C2: every erp_requisition_id has at most one decision in state detected
\* or pending_commit, whatever list of candidates the connector returns.
C2_AtMostOneActivePerRequisition ==
    \A r \in ReqIds :
        Cardinality({d \in Ids(store) : /\ store[d].erp_requisition_id = r
                                        /\ store[d].state \in ActiveStates}) <= 1

\* C3: when an undo, approve or reject committed on a decision after the
\* tick's query, the turn of the loop for that decision (whose persisted
\* state is no longer pending_commit) calls the connector for nothing and
\* changes nothing of the decision.
C3_WorkerSkipsDecisionHandledMeanwhile ==
    [][(/\ wpc = "loop"
        /\ widx' = widx + 1
        /\ store[Current].state # "pending_commit")
         => (wsubmitted' = wsubmitted /\ wsess' = wsess)]_vars

\* C4: the worker calls submit_decision for a decision, and finalizes it,
\* only in a tick whose query time is at or after the decision's commit_at,
\* which is grace_period after it was staged.
C4_GracePeriodRespected ==
    [][/\ \A d \in Range(wsubmitted') :
             /\ store[d].commit_at <= wquery'
             /\ store[d].created_at + GracePeriodMinutes <= wquery'
             /\ wquery' <= now'
       /\ wpc = "commit" =>
             \A d \in Ids(store) :
                 store'[d] # store[d] =>
                     /\ store[d].commit_at <= wquery
                     /\ store[d].created_at + GracePeriodMinutes <= wquery]_vars

\* C4: a tick that submitted a due decision while another decision, still
\* in its grace period, was left alone
C4_Witness ==
    /\ wpc = "commit"
    /\ wsubmitted # <<>>
    /\ \E e \in Ids(store) :
          /\ store[e].state = "pending_commit"
          /\ store[e].commit_at > now
          /\ e \notin Range(wsubmitted)

\* C5: list_pending_commits returns exactly the decisions with state
\* pending_commit and commit_at <= now (each once).
C5_ListPendingCommitsExact ==
    [][WorkerQuery =>
          LET returned == IF wpc' = "loop" THEN wlist' ELSE <<>>
          IN /\ Range(returned) = {d \in Ids(store) :
                                      /\ store[d].state = "pending_commit"
                                      /\ store[d].commit_at <= now}
             /\ \A i, j \in 1..Len(returned) : i # j => returned[i] # returned[j]]_vars

\* C5: a query that returned a due decision and left out a pending_commit
\* decision that was not due and a decision that was not pending_commit
C5_Witness ==
    /\ wpc = "loop"
    /\ widx = 1
    /\ Len(wlist) = 1
    /\ \E e \in Ids(store) :
          /\ e \notin Range(wlist)
          /\ store[e].state = "pending_commit"

\* C6: a worker tick calls the connector for no decision whose state is not
\* pending_commit and changes no field of it.
C6_WorkerLeavesOtherStatesAlone ==
    [][(WorkerQuery \/ Process \/ EndOfTick) =>
          \A d \in Ids(store) :
              store[d].state # "pending_commit" =>
                  /\ store'[d] = store[d]
                  /\ d \notin Range(wsubmitted')]_vars

\* C6: a tick that has processed its candidates while the store holds a
\* decision that had left pending_commit before the tick
C6_Witness ==
    /\ wpc = "commit"
    /\ wsubmitted # <<>>
    /\ \E d \in Ids(store) :
          /\ store[d].state \in TerminalStates
          /\ d \notin Range(wsubmitted)

\* C7: on the answer already_processed the worker leaves the decision
\* exactly as on the answers ok and simulated: state committed, committed_at
\* stamped, no error_message; and so it is persisted at the end of the tick.
C7_AlreadyProcessedAsOk ==
    [][/\ \A r \in SuccessResults, e \in ErrorLengths :
             WorkerProcess(r, e) =>
                 /\ wsess' = [wsess EXCEPT ![Current] =
                                 [@ EXCEPT !.state = "committed", !.committed_at = now]]
                 /\ wsess'[Current].committed_at # NoneVal
                 /\ wsess'[Current].error_message = NoText
       /\ WorkerCommit(TRUE) =>
             \A d \in DOMAIN wsess : store'[d] = wsess[d]]_vars

\* C7: the connector answered already_processed and the decision is
\* committed in the tick's session
C7_Witness ==
    /\ ret.result = "already_processed"
    /\ wsess[wlist[widx - 1]].state = "committed"

\* C8: on an answer with a status other than ok, simulated and
\* already_processed (or none), or on an exception, the worker sets the
\* decision to failed with the error text cut to 500 characters and leaves
\* committed_at unset.
C8_FailureMarksFailed ==
    [][/\ \A r \in FailureResults, e \in ErrorLengths :
             WorkerProcess(r, e) =>
                 /\ wsess'[Current].state = "failed"
                 /\ wsess'[Current].error_message.src = ExceptionText(r, e).src
                 /\ wsess'[Current].error_message.len =
                        (IF e <= ErrorMessageLimit THEN e ELSE ErrorMessageLimit)
                 /\ wsess'[Current].committed_at = NoneVal
       /\ WorkerCommit(TRUE) =>
             \A d \in DOMAIN wsess :
                 wsess[d].state = "failed" =>
                     /\ store'[d].state = "failed"
                     /\ store'[d].error_message = wsess[d].error_message
                     /\ store'[d].committed_at = NoneVal]_vars

\* C8: a persisted failed decision whose error text was cut
C8_Witness ==
    \E d \in Ids(store) :
        /\ store[d].state = "failed"
        /\ store[d].error_message.len = ErrorMessageLimit
        /\ store[d].committed_at = NoneVal

\* C9: a failure on one candidate does not stop the batch: every candidate
\* of the tick is submitted, and what becomes of a candidate depends on the
\* connector's answer for that candidate only.
C9_PartialFailureIsolation ==
    [][/\ \A r \in SubmitResults, e \in ErrorLengths :
             WorkerProcess(r, e) =>
                 /\ wsess'[Current].state =
                        (IF r \in SuccessResults THEN "committed" ELSE "failed")
                 /\ \A d \in DOMAIN wsess : d # Current => wsess'[d] = wsess[d]
                 /\ wsubmitted' = Append(wsubmitted, Current)
       /\ wpc' = "commit" => wsubmitted' = wlist'
       /\ WorkerCommit(TRUE) =>
             \A d \in Range(wlist) : store'[d].state = wsess[d].state]_vars

\* C9: a tick whose first candidate failed and whose second was committed
C9_Witness ==
    /\ wpc = "commit"
    /\ Len(wlist) = 2
    /\ wsess[wlist[1]].state = "failed"
    /\ wsess[wlist[2]].state = "committed"

\* C10: when the end-of-tick commit fails, run() raises, the store holds
\* what it held before the tick and the next query finds the same due
\* decisions in pending_commit.
C10_FailedCommitRollsBack ==
    [][WorkerCommit(FALSE) =>
          /\ ret'.raised
          /\ store' = store
          /\ \A d \in DOMAIN wloaded : store'[d] = wloaded[d]
          /\ ListPendingCommits(store', now') = Range(wlist)]_vars

\* C10: a tick that raised, with the decisions it had processed due again
C10_Witness ==
    /\ ret.raised
    /\ wpc = "idle"
    /\ ListPendingCommits(store, now) # {}

\* the notification logs that exist for decision d among logs
LogsFor(d, logs) == {l.channel : l \in {m \in logs : m.for = d}}

\* C11: when the notification dispatch for a committed decision fails (not
\* both logs were added), the decision is committed all the same, no other
\* decision of the batch is touched, the loop goes on, and a successful
\* end-of-tick commit persists every decision as the loop left it, without
\* raising.
C11_NotificationFailureHarmless ==
    [][/\ \A r \in SuccessResults, e \in ErrorLengths :
             (WorkerProcess(r, e) /\ LogsFor(Current, wlogs') # {"email", "slack"}) =>
                 /\ wsess'[Current].state = "committed"
                 /\ wsess'[Current].error_message = NoText
                 /\ \A d \in DOMAIN wsess : d # Current => wsess'[d] = wsess[d]
                 /\ wpc' = (IF widx < Len(wlist) THEN "loop" ELSE "commit")
       /\ WorkerCommit(TRUE) =>
             /\ ~ret'.raised
             /\ \A d \in DOMAIN wsess :
                   /\ store'[d].state = wsess[d].state
                   /\ wsess[d].state = "committed" =>
                          store'[d].committed_at = wsess[d].committed_at]_vars

\* C11: two decisions committed by one tick are persisted as committed, one
\* whose dispatch failed after the e-mail log and one with both logs
C11_Witness ==
    \E d, e \in Ids(store) :
        /\ store[d].state = "committed"
        /\ store[e].state = "committed"
        /\ store[d].committed_at = store[e].committed_at
        /\ LogsFor(d, notification_logs) = {"email"}
        /\ LogsFor(e, notification_logs) = {"email", "slack"}

C14_SecondStagingCreatesNothing ==
    [][(wpc = "idle" /\ Len(store') > Len(store)) =>
          \A cands \in Candidates :
              DetectAndStage(cands, TRUE, TRUE) =>
                  /\ StagedCandidates(cands, store') = <<>>
                  /\ StagedDecisions(cands, store', now', auto_commit_enabled') = <<>>
                  /\ store' \o StagedDecisions(cands, store', now', auto_commit_enabled')
                        = store'
                  /\ \A d \in Ids(store) : store'[d] = store[d]]_vars

\* C14: both requisitions have an active decision staged at this time and the
\* last call returned nothing
C14_Witness ==
    /\ wpc = "idle"
    /\ ret.none
    /\ Len(store) = 2
    /\ store[1].erp_requisition_id # store[2].erp_requisition_id
    /\ \A d \in Ids(store) : /\ store[d].state \in ActiveStates
                              /\ store[d].created_at = now

C16_OutcomeThresholds ==
    /\ scored.decision # "-" =>
          /\ scored.risk_score < 30 => scored.decision = "auto_approve"
          /\ (30 <= scored.risk_score /\ scored.risk_score < 70) =>
                 scored.decision = "manual_approve"
          /\ scored.risk_score >= 70 => scored.decision = "hold"
          /\ scored.decision # "reject"
    /\ \A d \in Ids(store) :
          /\ store[d].decision # "reject"
          /\ store[d].risk_score < 30 => store[d].decision = "auto_approve"
          /\ (30 <= store[d].risk_score /\ store[d].risk_score < 70) =>
                 store[d].decision = "manual_approve"
          /\ store[d].risk_score >= 70 => store[d].decision = "hold"

\* C16: the score 70 was given the outcome hold
C16_Witness ==
    /\ scored.risk_score = 70
    /\ scored.decision = "hold"

\* the requisition of Scenario A: price 200, quantity 1, plain material and plant
ScenarioA(req) ==
    /\ req.price = 200
    /\ req.quantity = 1
    /\ req.material = "plain"
    /\ req.plant = "plain"

\* C17 as claimed: the requisition with price 200 and quantity 1 is scored
\* at least 40 and staged with outcome hold.
C17_ScenarioAStagedHold ==
    [][\A d \in Ids(store') \ Ids(store) :
          ScenarioA(RequisitionDTO(store'[d].erp_requisition_id)) =>
              /\ store'[d].risk_score >= 40
              /\ store'[d].decision = "hold"]_vars

\* C17 amended: the requisition with price 200 and quantity 1 is scored 55
\* (40 for the total above 100, 15 for the unit price above 10), which is at
\* least 40 and below 70, and is staged with outcome manual_approve.
C17_ScenarioAStagedManualApprove ==
    [][\A d \in Ids(store') \ Ids(store) :
          ScenarioA(RequisitionDTO(store'[d].erp_requisition_id)) =>
              /\ store'[d].risk_score >= 40
              /\ store'[d].risk_score = 55
              /\ store'[d].decision = "manual_approve"]_vars

\* C17: the Scenario A requisition staged with score 55 and manual_approve
C17_Witness ==
    \E d \in Ids(store) :
        /\ ScenarioA(RequisitionDTO(store[d].erp_requisition_id))
        /\ store[d].risk_score = 55
        /\ store[d].decision = "manual_approve"
        /\ store[d].state \in ActiveStates

\* C18: no operation changes the commit_at, risk_score, risk_explanation, id
\* or erp_requisition_id of an existing decision, in the store or in the
\* worker's session.
C18_CreationFieldsImmutable ==
    [][/\ Len(store') >= Len(store)
       /\ \A d \in Ids(store) :
             /\ store'[d].commit_at = store[d].commit_at
             /\ store'[d].risk_score = store[d].risk_score
             /\ store'[d].risk_explanation = store[d].risk_explanation
             /\ store'[d].id = store[d].id
             /\ store'[d].erp_requisition_id = store[d].erp_requisition_id
       /\ \A d \in DOMAIN wsess' :
             /\ wsess'[d].commit_at = store[d].commit_at
             /\ wsess'[d].risk_score = store[d].risk_score
             /\ wsess'[d].risk_explanation = store[d].risk_explanation
             /\ wsess'[d].id = store[d].id
             /\ wsess'[d].erp_requisition_id = store[d].erp_requisition_id]_vars

\* C18: a decision failed by the worker and a decision committed by hand
\* later than its staging, both with the commit_at of their creation
C18_Witness ==
    \E d, e \in Ids(store) :
        /\ store[d].state = "failed"
        /\ store[e].state = "committed"
        /\ store[e].committed_at > store[e].created_at
        /\ store[e].decision = "reject"
        /\ store[d].commit_at = store[d].created_at + GracePeriodMinutes
        /\ store[e].commit_at = store[e].created_at + GracePeriodMinutes

\* C19: a decision's outcome changes only from hold or manual_approve to
\* manual_approve or reject, by an approve or reject call; an outcome of
\* auto_approve is kept when approve is called, and an outcome of reject is
\* never changed.
C19_OutcomeTransitions ==
    [][\A d \in Ids(store) :
          LET old == store[d].decision
              new == store'[d].decision
          IN /\ new # old =>
                   /\ Approve \/ Reject
                   /\ <<old, new>> \in {<<"hold", "manual_approve">>,
                                        <<"hold", "reject">>,
                                        <<"manual_approve", "reject">>}
             /\ (old = "auto_approve" /\ Approve) => new = "auto_approve"
             /\ old = "reject" => new = "reject"]_vars

\* C20: a decision's committed_at is set exactly when its state is committed
\* and its error_message is set only when its state is failed.
C20_StampsMatchState ==
    \A d \in Ids(store) :
        /\ store[d].committed_at # NoneVal <=> store[d].state = "committed"
        /\ store[d].error_message # NoText => store[d].state = "failed"

IsPrefix(a, b) == Len(a) <= Len(b) /\ SubSeq(b, 1, Len(a)) = a

\* C21: the comment of a decision is append-only.  After an undo, an approve
\* or a reject, whatever the caller's comment (texts that begin or end with
\* spaces or "|" included), the previous comment is a proper prefix of the
\* new one; no other operation changes the comment of a decision.
C21_CommentAppendOnly ==
    [][\A d \in Ids(store) :
          (d \in Ids(store') /\ store'[d].comment # store[d].comment) =>
             /\ IsPrefix(store[d].comment, store'[d].comment)
             /\ Len(store'[d].comment) > Len(store[d].comment)
             /\ \E r \in ReqIds :
                   \/ UndoDecision(r, TRUE)
                   \/ \E comment \in CommentTexts :
                         \/ ApproveDecisionWith(r, comment, TRUE)
                         \/ RejectDecisionWith(r, comment, TRUE)]_vars

\* a decision approved with the comment "|x|": its comment is the staged
\* one followed by " | Approved: |x"
C21_Witness ==
    \E d \in Ids(store) :
       /\ store[d].state = "committed"
       /\ store[d].comment =
             GenerateComment(store[d].risk_score,
                             DetermineDecision(store[d].risk_score))
             \o <<" ", "|", " ", "Approved:", " ", "|", "x">>

\* the call's transaction fails: its commit raises, or a statement of the
\* call has aborted it
TransactionFails(outcomes, commit_ok) ==
    ~commit_ok \/ Aborted(outcomes, Len(outcomes))

\* C22: staging is all-or-nothing.  A call whose fetch succeeds and whose
\* transaction commits persists every decision it created, together, after
\* the rows already there; a call whose fetch or transaction fails returns
\* an empty list and leaves the store as it was, with none of the decisions
\* it created.
C22_StagingAllOrNothing ==
    [][\A fetch_ok, commit_ok \in BOOLEAN :
          DetectAndStageItems(fetched'.cands, fetched'.outcomes,
                              fetch_ok, commit_ok) =>
             LET created == StagedDecisionsItems(fetched'.cands, fetched'.outcomes,
                                                 store, now, auto_commit_enabled)
             IN IF fetch_ok /\ ~TransactionFails(fetched'.outcomes, commit_ok)
                THEN /\ Len(store') = Len(store) + Len(created)
                     /\ \A k \in 1..Len(created) : store'[Len(store) + k] = created[k]
                     /\ \A d \in Ids(store) : store'[d] = store[d]
                     /\ ret'.none <=> created = <<>>
                ELSE /\ store' = store
                     /\ ret'.none]_vars

\* a batch of two candidates, neither failing, was staged by one call: both
\* decisions are in the store
C22_Witness ==
    /\ Len(fetched.cands) = 2
    /\ fetched.outcomes = AllOk(fetched.cands)
    /\ Len(store) = 2
    /\ \A d \in Ids(store) : /\ store[d].erp_requisition_id = fetched.cands[d]
                             /\ store[d].state \in ActiveStates
    /\ ~ret.none

\* C23: per-item isolation in staging.  When one candidate of the batch
\* fails (its duplicate check, scoring or explanation raises), that
\* candidate alone is excluded: the call stages and returns what it would
\* have staged had the failing candidate not been in the list.
C23_StagingItemIsolation ==
    [][\A i \in 1..Len(fetched'.cands) :
          (/\ fetched'.outcomes[i] # "ok"
           /\ \A j \in 1..Len(fetched'.cands) : j # i => fetched'.outcomes[j] = "ok"
           /\ DetectAndStageItems(fetched'.cands, fetched'.outcomes, TRUE, TRUE)) =>
             LET others == SubSeq(fetched'.cands, 1, i - 1)
                              \o SubSeq(fetched'.cands, i + 1, Len(fetched'.cands))
                 expected == StagedDecisions(others, store, now,
                                             auto_commit_enabled)
             IN /\ store' = store \o expected
                /\ ret'.none <=> expected = <<>>]_vars

\* C24: no operation, the start of the application included, removes a
\* decision: every decision of the store is still there, with its id,
\* after every step.
C24_DecisionsNeverRemoved ==
    [][\A d \in Ids(store) : d \in Ids(store') /\ store'[d].id = store[d].id]_vars

C26_SeedingIdempotent ==
    /\ [](\A id \in SimIds : Cardinality(RowsOf(erp_sim, id)) <= 1)
    /\ [][\A a \in MockAdapters, db_ok \in BOOLEAN :
             (MockConnect(a, db_ok) /\ erp_sim # <<>>) => erp_sim' = erp_sim]_vars
    /\ [][(\E a \in MockAdapters : mock_connected'[a] /\ ~mock_connected[a]) =>
             IF erp_sim = <<>> THEN erp_sim' = SeedRows ELSE erp_sim' = erp_sim]_vars

\* both adapter instances have connected, the second one to a table that
\* held the seed records, one of them decided
C26_Witness ==
    /\ \A a \in MockAdapters : mock_connected[a]
    /\ Len(erp_sim) = Len(SEED_DATA)
    /\ \E i \in 1..Len(erp_sim) : erp_sim[i].status \in TERMINAL_STATUSES

\* C27: live connector.  A write (not a GET) answered 403 refreshes the
\* CSRF token once and is sent again once; a 403 answered to the request
\* sent again is an error, with no further refresh and no further send; a
\* 403 answered to a GET refreshes nothing.
C27_CsrfRefreshOnce ==
    /\ [](/\ sap.refreshes <= 1
          /\ sap.sends <= 2
          /\ sap.phase \in {"refresh", "resend"} =>
                (sap.method # "GET" /\ sap.refreshes = 1))
    /\ [][\A status \in HttpAnswers, header \in BOOLEAN :
             SapAnswer(status, header) =>
                /\ (sap.phase = "send" /\ status = 403 /\ sap.method # "GET") =>
                      /\ sap'.phase = "refresh"
                      /\ sap'.refreshes = 1
                      /\ sap'.sends = 1
                /\ (sap.phase = "send" /\ status = 403 /\ sap.method = "GET") =>
                      /\ sap'.phase = "idle"
                      /\ sap'.result = "raised"
                      /\ sap'.refreshes = 0
                      /\ sap'.csrf_token = sap.csrf_token
                /\ (sap.phase = "refresh" /\ sap'.phase # "refresh") =>
                      /\ sap'.phase = "resend"
                      /\ sap'.sends = 2
                      /\ sap'.refreshes = 1
                /\ (sap.phase = "resend" /\ status = 403) =>
                      /\ sap'.phase = "idle"
                      /\ sap'.result = "error"
                      /\ sap'.refreshes = 1
                      /\ sap'.sends = 2]_vars

\* a write was answered 403, the token was refreshed once, the request was
\* sent again once and ended in an error
C27_Witness ==
    /\ sap.phase = "idle"
    /\ sap.method = "POST"
    /\ sap.refreshes = 1
    /\ sap.sends = 2
    /\ sap.result = "error"

\* an error status that is not transient
OtherError(status) ==
    /\ status # TransportError
    /\ status \notin RETRY_STATUS_CODES
    /\ ~ResponseOk(status)

\* a request of _execute_request is in progress
Requesting == sap.phase \in {"send", "resend"}

\* the operation in progress ends in an error at this step, without the
\* request being sent again
SurfacedAsError ==
    /\ sap'.phase = "idle"
    /\ sap'.result \in {"error", "raised"}
    /\ sap'.retries = sap.retries
    /\ sap'.sends = sap.sends

\* a request answered with a transient status is sent again while fewer
\* than 3 retries were made, and is an error after the third
TransientRetried(status) ==
    (Requesting /\ status \in RETRY_STATUS_CODES) =>
       IF sap.retries < MAX_RETRIES
       THEN sap'.phase = sap.phase /\ sap'.retries = sap.retries + 1
       ELSE SurfacedAsError

\* C28, as claimed: retry is bounded.  A request answered with a transient
\* status (429, 500, 502, 503, 504) is retried at most 3 times and is then
\* an error, so every operation terminates; a request answered with any
\* other error status is an error after that one attempt, with no retry.
C28_RetryBounded ==
    /\ [](sap.retries <= MAX_RETRIES)
    /\ [][\A status \in HttpAnswers, header \in BOOLEAN :
             SapAnswer(status, header) =>
                /\ TransientRetried(status)
                /\ (Requesting /\ OtherError(status)) => SurfacedAsError]_vars
    /\ (sap.phase # "idle") ~> (sap.phase = "idle")

\* C28, amended: the same, but for the 403 answered to the first send of a
\* write, which is not an error yet: the token is refreshed and the request
\* is sent again once (C27).
C28_RetryBoundedButCsrf ==
    /\ [](sap.retries <= MAX_RETRIES)
    /\ [][\A status \in HttpAnswers, header \in BOOLEAN :
             SapAnswer(status, header) =>
                /\ TransientRetried(status)
                /\ (/\ Requesting
                    /\ OtherError(status)
                    /\ ~(sap.phase = "send" /\ status = 403 /\ sap.method # "GET")) =>
                      SurfacedAsError]_vars
    /\ (sap.phase # "idle") ~> (sap.phase = "idle")

\* a request was retried 3 times, was answered with a transient status
\* again and ended in an error
C28_Witness ==
    /\ sap.phase = "idle"
    /\ sap.retries = MAX_RETRIES
    /\ sap.sends >= 1
    /\ sap.result \in {"error", "raised"}

\* C29: connect() of the live connector fails and leaves the connector not
\* connected when the credentials are absent or the upstream rejects them
\* (401, 403) during the token negotiation; it is connected only after a
\* negotiation that succeeded.
C29_ConnectFailsWithoutCredentials ==
    [][\A status \in HttpAnswers, header \in BOOLEAN :
          (/\ SapAnswer(status, header)
           /\ sap.phase = "connect_token"
           /\ sap'.phase = "idle") =>
             IF sap.credentials = "absent" \/ status \in {401, 403}
             THEN ~sap'.connected
             ELSE sap'.connected => (ResponseOk(status) /\ status # TransportError)]_vars

\* C30: connect() on a connector that is connected does nothing, for the
\* simulated and for the live connector: no seeding, no new session, no
\* token fetch, and the connector stays connected.
C30_ConnectWhenConnectedIsNoOp ==
    [][/\ \A a \in MockAdapters, db_ok \in BOOLEAN :
             (MockConnect(a, db_ok) /\ mock_connected[a]) =>
                /\ erp_sim' = erp_sim
                /\ mock_connected' = mock_connected
                /\ ~ret'.raised
       /\ (SapConnect /\ sap.connected /\ sap.session # 0) =>
             /\ sap'.session = sap.session
             /\ sap'.sessions = sap.sessions
             /\ sap'.csrf_token = sap.csrf_token
             /\ sap'.phase = "idle"
             /\ sap'.connected]_vars

\* connect() was called on the live connector while it was connected, with
\* a simulated connector connected too
C30_Witness ==
    /\ sap.result = "skipped"
    /\ sap.connected
    /\ sap.session # 0
    /\ \E a \in MockAdapters : mock_connected[a]

\* the three operations of the live connector that talk to the upstream
SapOperation == SapFetch \/ SapGetDetails \/ SapSubmit

\* C31: disconnect() is possible whenever the connector is called, leaves it
\* disconnected and raises nothing, however often it is called; while the
\* live connector is not connected (before the first connect() and after a
\* disconnect()) fetch_pending, fetch_one and submit_decision fail with the
\* connection failure and send no request, and after the next connect()
\* they send again.
C31_DisconnectedOperationsFail ==
    /\ [](sap.phase = "idle" => ENABLED SapDisconnect)
    /\ [](sap.phase \in {"submit_token", "send", "refresh", "resend"} =>
             sap.connected /\ sap.session # 0)
    /\ [][/\ SapDisconnect =>
                /\ sap'.result = "disconnected"
                /\ ~sap'.connected
                /\ sap'.session = 0
                /\ sap'.phase = "idle"
          /\ (SapOperation /\ (~sap.connected \/ sap.session = 0)) =>
                /\ sap'.result = "not_connected"
                /\ sap'.phase = "idle"
                /\ sap'.sends = sap.sends
                /\ sap'.retries = sap.retries
                /\ sap'.refreshes = sap.refreshes
                /\ sap'.connected = sap.connected
                /\ sap'.session = sap.session
          /\ (SapOperation /\ sap.connected /\ sap.session # 0) =>
                sap'.phase \in {"submit_token", "send"}]_vars

\* the connector was connected, then disconnected, and fetch_one then
\* failed with the connection failure
C31_Witness ==
    /\ sap.sessions >= 1
    /\ ~sap.connected
    /\ sap.session = 0
    /\ sap.op = "get_requisition_details"
    /\ sap.result = "not_connected"

\* C32: the runtime connector switch replaces the active connector only by
\* one whose connect() has completed: after a set_adapter that replaced
\* the active instance the new one is connected, and a set_adapter that
\* raises (connect() of the new connector raised, or the kind is not
\* recognised) leaves the active instance the one it was.
C32_SwitchReplacesAfterConnect ==
    [][\A mode \in Modes, db_ok \in BOOLEAN, status \in HttpAnswers,
          header \in BOOLEAN :
          SetAdapter(mode, db_ok, status, header) =>
             /\ adapter' # adapter => IsConnected(adapter', mock_connected', sap')
             /\ ret'.raised => adapter' = adapter]_vars

\* C33: within one tick the decisions are submitted one at a time in
\* non-decreasing commit_at order: the tick's list is sorted by commit_at,
\* each submission is that of the next decision of the list, and when a
\* decision is submitted every candidate of the tick with an earlier
\* commit_at has had its turn, the result of its submission being recorded
\* (committed or failed) in the tick's session.
C33_SubmittedInCommitAtOrder ==
    /\ [](wpc = "loop" =>
             \A i, j \in 1..Len(wlist) :
                i < j => wloaded[wlist[i]].commit_at <= wloaded[wlist[j]].commit_at)
    /\ [][(wpc = "loop" /\ wsubmitted' # wsubmitted) =>
             LET d == wlist[widx]
             IN /\ wsubmitted' = Append(wsubmitted, d)
                /\ \A k \in 1..Len(wsubmitted) :
                      /\ wloaded[wsubmitted[k]].commit_at <= wloaded[d].commit_at
                      /\ wsess[wsubmitted[k]].state \in {"committed", "failed"}
                /\ \A i \in 1..Len(wlist) :
                      wloaded[wlist[i]].commit_at < wloaded[d].commit_at => i < widx]_vars

\* a tick has submitted two decisions due at different times, the earlier
\* one first
C33_Witness ==
    /\ Len(wsubmitted) = 2
    /\ wloaded[wsubmitted[1]].commit_at < wloaded[wsubmitted[2]].commit_at
    /\ wsess[wsubmitted[1]].state \in {"committed", "failed"}

\* C34: the end-of-tick commit of a worker tick does not override a human
\* action committed after the tick's re-read: a decision that undo has
\* cancelled stays cancelled, and a decision that approve or reject has
\* committed is not made failed.
C34_HumanActionNotOverridden ==
    [][wpc = "commit" =>
          \A d \in Ids(store) :
             /\ store[d].state = "cancelled" => store'[d].state = "cancelled"
             /\ store[d].state = "committed" => store'[d].state # "failed"]_vars

\* C35: when two ticks overlap, each in a session of its own, no decision is
\* submitted to the connector by both of them
C35_SubmittedByOneTick ==
    wpc # "idle" =>
        \A i \in 1..Len(wsubmitted), j \in 1..Len(other_submitted) :
            wsubmitted[i] # other_submitted[j]

\* C36: when a detect_and_stage call commits while another one ran
\* concurrently in a transaction of its own, no erp_requisition_id has two
\* decisions in detected or pending_commit
C36_ConcurrentStagingNoDuplicate ==
    [][staging.open /\ ~staging'.open =>
          \A d, e \in Ids(store') :
             (/\ d # e
              /\ store'[d].erp_requisition_id = store'[e].erp_requisition_id)
             => ~(store'[d].state \in ActiveStates /\ store'[e].state \in ActiveStates)]_vars

\* C37: with ticks that keep coming, a clock that goes on and end-of-tick
\* commits that succeed in the end, every decision in pending_commit reaches
\* committed, failed or cancelled
C37_PendingCommitIsSettled ==
    \A d \in 1..MaxDecisions :
        (d \in Ids(store) /\ store[d].state = "pending_commit")
            ~> (d \in Ids(store) /\ store[d].state \in TerminalStates)

\* C37: a decision the worker settled after its commit_at
C37_Witness ==
    \E d \in Ids(store) :
        /\ store[d].state \in {"committed", "failed"}
        /\ store[d].commit_at <= now
        /\ wpc = "idle"

ManuallyRejected(r) ==
    \E d \in Ids(store) : /\ store[d].erp_requisition_id = r
                           /\ store[d].decision = "reject"
                           /\ store[d].state = "committed"

\* C39: with the simulated connector, no step makes the ERP record of a
\* manually rejected requisition approved
C39_RejectedIsNotApprovedInErp ==
    [][\A r \in SimIds :
          ManuallyRejected(r) =>
             \A i \in RowsOf(erp_sim', r) :
                erp_sim'[i].status = "approved"
                => (i \in RowsOf(erp_sim, r) /\ erp_sim[i].status = "approved")]_vars

\* C40: every decision the worker submits to the connector has the outcome
\* auto_approve
C40_WorkerPushesAutoApproveOnly ==
    [][Len(wsubmitted') > Len(wsubmitted) =>
          LET d == wsubmitted'[Len(wsubmitted')]
          IN /\ wsess[d].decision = "auto_approve"
             /\ store[d].decision = "auto_approve"]_vars

====
